---- MODULE Spec2Model ----
(***************************************************************************)
(* A model of the training / evaluation / prediction step orchestration    *)
(* of huylenguyen806/vnasrg: BaseModel (tensorflow_asr/models/             *)
(* base_model.py), the CTC runners (runners/ctc_runners.py), the CTC loss  *)
(* and decode lambdas (models/CTCModel.py) and the ErrorRate metric        *)
(* (tensorflow_asr/metrics/error_rates.py).                                *)
(*                                                                         *)
(* Tensors are small integer vectors.  A float is a record [nf, v]: nf is  *)
(* TRUE for a non-finite value (inf or nan), v is the value otherwise.     *)
(* The network itself (forward pass and automatic differentiation) is the  *)
(* tensor runtime's: a batch carries the loss, the gradient and the        *)
(* per-frame class weights the network yields on it.                       *)
(***************************************************************************)
EXTENDS Integers, Sequences, FiniteSets, TLC

VARIABLES
    compiled,             \* BaseModel.compile has run
    ga_steps,             \* the ga_steps argument compile was called with
    use_ga,               \* BaseModel.use_ga
    ga_total_steps,       \* BaseModel.ga.total_steps
    use_loss_scale,       \* BaseModel.use_loss_scale
    optimizer,            \* the class of self.optimizer
    trainable_variables,  \* the model parameters, a vector of floats
    iterations,           \* optimizer.iterations
    loss_scale,           \* LossScaleOptimizer's dynamic scale
    loss_metric,          \* the compiled loss tracker [total, count]
    train_counter,        \* model._train_counter
    test_counter,         \* model._test_counter
    pc,                   \* position inside the running step function
    data,                 \* the batch of the running step
    i,                    \* loop index of the running step
    gradients,            \* train_step's local `gradients`
    trace,                \* calls made by the running step, in order
    outputs,              \* what the last finished step returned
    before,               \* parameters and optimizer state at step entry
    is_mixed_precision,   \* CTCTrainer.is_mixed_precision
    eval_data_loader,     \* CTCTrainer.eval_data_loader, a list of batches
    train_metrics,        \* CTCTrainer.train_metrics
    eval_metrics,         \* CTCTrainer.eval_metrics
    test_metrics,         \* CTCTester.test_metrics
    reported,             \* what the last evaluation epoch logged
    hypotheses,           \* the hypotheses the running beam search keeps
    tflite_beam_width,    \* the beam_width tflite_func was made with
    iterator,             \* the batches the data iterator has yet to yield
    steps_per_execution,  \* model._steps_per_execution
    tfrecord_files,       \* the shard files of the tfrecords directory
    workers,              \* the pool workers of a running create_tfrecords
    latest_checkpoint,    \* the latest checkpoint on disk, None: none
    save_counter,         \* Checkpoint.save_counter of the running process
    epoch,                \* SEGAN.train's loop variable
    generator             \* train steps the generator in memory has taken

configVars == <<compiled, ga_steps, use_ga, ga_total_steps, use_loss_scale, optimizer>>

optVars == <<trainable_variables, iterations, loss_scale>>

counterVars == <<train_counter, test_counter>>

stepVars == <<data, i, gradients, trace, outputs, before>>

runnerVars == <<is_mixed_precision, eval_data_loader, train_metrics,
                eval_metrics, test_metrics, reported>>

decoderVars == <<hypotheses, tflite_beam_width>>

driverVars == <<iterator, steps_per_execution>>

recordVars == <<tfrecord_files, workers>>

seganVars == <<latest_checkpoint, save_counter, epoch, generator>>

ioVars == <<driverVars, recordVars, seganVars>>

vars == <<configVars, optVars, counterVars, stepVars, loss_metric, pc, runnerVars,
          decoderVars, ioVars>>

----------------------------------------------------------------------------
(* Bounds of the model. *)

MaxGaSteps == 2
MaxTrainSteps == 2
MaxTestSteps == 1
MaxPredictFrames == 2
MaxEvalSteps == 2
MaxFrames == 6
MaxBeamFrames == 2
MaxBeamWidth == 2
MaxLossFrames == 2
MaxStepBeamWidth == 3
MaxStepFrames == 2
MaxPadFrames == 2

----------------------------------------------------------------------------
(* Floats and vectors of floats. *)

F(n) == [nf |-> FALSE, v |-> n]

NaN == [nf |-> TRUE, v |-> 0]

FAdd(a, b) == IF a.nf \/ b.nf THEN NaN ELSE F(a.v + b.v)

FSub(a, b) == IF a.nf \/ b.nf THEN NaN ELSE F(a.v - b.v)

FMul(a, n) == IF a.nf THEN NaN ELSE F(a.v * n)

FDiv(a, n) == IF a.nf THEN NaN ELSE F(a.v \div n)

VAdd(x, y) == [k \in 1..Len(x) |-> FAdd(x[k], y[k])]

VSub(x, y) == [k \in 1..Len(x) |-> FSub(x[k], y[k])]

VMul(x, n) == [k \in 1..Len(x) |-> FMul(x[k], n)]

VDiv(x, n) == [k \in 1..Len(x) |-> FDiv(x[k], n)]

IsFinite(x) == \A k \in 1..Len(x) : ~x[k].nf

----------------------------------------------------------------------------
(* Batches.  A sub-batch carries what the network yields on it at the      *)
(* current parameters: its loss and the gradient of that loss.  The        *)
(* gradients are multiples of the accumulation step count, so that         *)
(* dividing the loss by it (base_model.py:196) is exact.                   *)

Examples ==
    { [loss |-> 1, grad |-> <<F(0), F(0)>>],
      [loss |-> 2, grad |-> <<F(1), F(2)>>],
      [loss |-> 2, grad |-> <<F(3), F(4)>>],
      [loss |-> 1, grad |-> <<NaN, F(1)>>] }

SubBatch(e, n) == [loss |-> e.loss * n, grad |-> VMul(e.grad, n)]

(* a sub-batch on which the gradient comes out with another shape *)
MismatchedExample == [loss |-> 1, grad |-> <<F(1)>>]

Batches(n) == [1..n -> {SubBatch(e, n) : e \in Examples \cup {MismatchedExample}}]

(* math_util.slice_batch_tensor(x, index=i, ...): the i-th sub-batch.      *)
slice_batch_tensor(d, index) == d[index + 1]

ZeroVector == <<F(0), F(0)>>

InitialLossScale == 2 ^ 15

Snapshot == [params |-> trainable_variables, iterations |-> iterations,
             loss_scale |-> loss_scale]

Event(op, index) == [op |-> op, index |-> index]

NoIndex == 0 - 1

(* keras.metrics.Mean.update_state *)
UpdateMean(m, x) == [total |-> m.total + x, count |-> m.count + 1]

----------------------------------------------------------------------------
(* BaseModel.compile *)

None == <<>>

Int1(n) == <<n>>

IsInt(x) == Len(x) = 1

MxpValues == {"none", "fp16"}

GaStepsValues == {None} \cup {Int1(n) : n \in (0 - 1)..MaxGaSteps}

compile_use_loss_scale(mxp, tpu) == IF tpu THEN FALSE ELSE mxp # "none"

compile_use_ga(steps) == IsInt(steps) /\ steps[1] > 1

(* optimizer = keras.mixed_precision.LossScaleOptimizer(optimizer) *)
compile_optimizer_unwrapped(mxp, tpu) == "SGD"

compile_optimizer(mxp, tpu) ==
    IF compile_use_loss_scale(mxp, tpu) THEN "LossScaleOptimizer" ELSE "SGD"

(* GradientAccumulator(ga_steps=ga_steps).total_steps *)
GradientAccumulator(steps) == steps[1]

Compile ==
    /\ pc = "new"
    /\ \E mxp \in MxpValues, steps \in GaStepsValues, tpu \in BOOLEAN :
          /\ ga_steps' = steps
          /\ use_loss_scale' = compile_use_loss_scale(mxp, tpu)
          /\ optimizer' = compile_optimizer(mxp, tpu)
          /\ use_ga' = compile_use_ga(steps)
          /\ ga_total_steps' = IF compile_use_ga(steps)
                                 THEN GradientAccumulator(steps) ELSE 0
    /\ compiled' = TRUE
    /\ pc' = "idle"
    /\ UNCHANGED <<ioVars, decoderVars, optVars, counterVars, stepVars, loss_metric, runnerVars>>

----------------------------------------------------------------------------
(* BaseModel._train_step: forward, compute_loss, the division of the loss  *)
(* by ga.total_steps, loss scaling, backward, unscaling.  The gradient is  *)
(* linear in the loss, so what is done to the loss is done to it.          *)

get_scaled_loss(g) == VMul(g, loss_scale)

(* gradients handed on as the backward pass of the scaled loss gave them *)
get_unscaled_gradients_skipped(g) == g

get_unscaled_gradients(g) == VDiv(g, loss_scale)

(* a sub-step whose loss is not divided by the accumulation step count *)
_train_step_undivided(d) ==
    IF use_loss_scale
      THEN get_unscaled_gradients(get_scaled_loss(d.grad))
      ELSE d.grad

_train_step(d) ==
    LET g == IF use_ga THEN VDiv(d.grad, ga_total_steps) ELSE d.grad
    IN  IF use_loss_scale
          THEN get_unscaled_gradients(get_scaled_loss(g))
          ELSE g

(* what one _train_step does on sub-batch `index`, in order *)
TrainSubStepEvents(index) ==
    <<Event("_train_step", index)>>
      \o (IF use_ga THEN <<Event("divide_loss", index)>> ELSE <<>>)
      \o (IF use_loss_scale
            THEN <<Event("get_scaled_loss", index), Event("backward", index),
                   Event("get_unscaled_gradients", index)>>
            ELSE <<Event("backward", index)>>)

(* GradientAccumulator.accumulate(running_total, new_gradients): the       *)
(* element-wise sum, shape-checked against running_total                   *)
ShapesMatch(x, y) == Len(x) = Len(y)

accumulate(running_total, new_gradients) == VAdd(running_total, new_gradients)

(* for i in tf.range(1, self.ga.total_steps) *)
TrainRangeOffByOne(total_steps) == 1..(total_steps - 2)

TrainRange(total_steps) == 1..(total_steps - 1)

(* gradients = self.ga.accumulate(gradients, per_ga_gradients) *)
TrainAccumulateOverwrite(running, per_ga_gradients) == per_ga_gradients

TrainAccumulate(running, per_ga_gradients) == accumulate(running, per_ga_gradients)

----------------------------------------------------------------------------
(* optimizer.apply_gradients.  The inner optimizer is plain gradient       *)
(* descent with learning rate 1.  A LossScaleOptimizer with dynamic loss   *)
(* scaling applies the update only when every gradient is finite, and      *)
(* otherwise skips it and halves its scale.                                *)

Max(a, b) == IF a >= b THEN a ELSE b

sgd_apply(g) ==
    [params |-> VSub(trainable_variables, g),
     iterations |-> iterations + 1,
     loss_scale |-> loss_scale]

apply_gradients(g) ==
    IF optimizer = "LossScaleOptimizer" /\ ~IsFinite(g)
      THEN [params |-> trainable_variables,
            iterations |-> iterations,
            loss_scale |-> Max(loss_scale \div 2, 1)]
      ELSE sgd_apply(g)

(* self.get_metrics_result() *)
get_metrics_result == [loss |-> loss_metric]

----------------------------------------------------------------------------
(* BaseModel.train_step, inside make_train_function's run_step *)

(* the total of the updates applied so far *)
Carried == VSub(ZeroVector, trainable_variables)

(* a train_step whose running total starts from what earlier steps summed *)
TrainStepBeginCarried ==
    /\ pc = "idle"
    /\ train_counter < MaxTrainSteps
    /\ \E d \in Batches(IF use_ga THEN ga_total_steps ELSE 1) :
          LET first == IF use_ga THEN slice_batch_tensor(d, 0) ELSE d[1]
          IN  /\ data' = d
              /\ gradients' = IF ShapesMatch(Carried, _train_step(first))
                                THEN accumulate(Carried, _train_step(first))
                                ELSE _train_step(first)
              /\ loss_metric' = UpdateMean(loss_metric, first.loss)
    /\ i' = 1
    /\ trace' = TrainSubStepEvents(0)
    /\ before' = Snapshot
    /\ outputs' = <<>>
    /\ pc' = IF use_ga THEN "train_loop" ELSE "train_apply"
    /\ UNCHANGED <<ioVars, decoderVars, configVars, optVars, counterVars, runnerVars>>

TrainStepBegin ==
    /\ pc = "idle"
    /\ train_counter < MaxTrainSteps
    /\ \E d \in Batches(IF use_ga THEN ga_total_steps ELSE 1) :
          LET first == IF use_ga THEN slice_batch_tensor(d, 0) ELSE d[1]
          IN  /\ data' = d
              /\ gradients' = _train_step(first)
              /\ loss_metric' = UpdateMean(loss_metric, first.loss)
    /\ i' = 1
    /\ trace' = TrainSubStepEvents(0)
    /\ before' = Snapshot
    /\ outputs' = <<>>
    /\ pc' = IF use_ga THEN "train_loop" ELSE "train_apply"
    /\ UNCHANGED <<ioVars, decoderVars, configVars, optVars, counterVars, runnerVars>>

TrainStepLoop ==
    /\ pc = "train_loop"
    /\ i \in TrainRange(ga_total_steps)
    /\ LET sub == slice_batch_tensor(data, i)
       IN  /\ loss_metric' = UpdateMean(loss_metric, sub.loss)
           /\ IF ShapesMatch(gradients, _train_step(sub))
                THEN /\ gradients' = TrainAccumulate(gradients, _train_step(sub))
                     /\ trace' = trace \o TrainSubStepEvents(i)
                                           \o <<Event("accumulate", i)>>
                     /\ i' = i + 1
                     /\ pc' = pc
                ELSE /\ trace' = trace \o TrainSubStepEvents(i)
                                           \o <<Event("error", i)>>
                     /\ pc' = "train_failed"
                     /\ UNCHANGED <<gradients, i>>
    /\ UNCHANGED <<ioVars, decoderVars, configVars, optVars, counterVars, data, outputs,
                   before, runnerVars>>

TrainStepApply ==
    /\ \/ pc = "train_apply"
       \/ pc = "train_loop" /\ i \notin TrainRange(ga_total_steps)
    /\ IF ShapesMatch(gradients, trainable_variables)
         THEN /\ LET new == apply_gradients(gradients)
                 IN  /\ trainable_variables' = new.params
                     /\ iterations' = new.iterations
                     /\ loss_scale' = new.loss_scale
              /\ trace' = Append(trace, Event("apply_gradients", NoIndex))
              /\ outputs' = get_metrics_result
              /\ pc' = "train_done"
         ELSE /\ trace' = Append(trace, Event("error", NoIndex))
              /\ pc' = "train_failed"
              /\ UNCHANGED <<optVars, outputs>>
    /\ UNCHANGED <<ioVars, decoderVars, configVars, counterVars, data, i, gradients,
                   before, loss_metric, runnerVars>>

(* run_step when train_step has raised: the assign_add of the counter is   *)
(* never reached, and the error leaves step_function and fit: the driver   *)
(* runs no further step                                                    *)
TrainStepAbortCounted ==
    /\ pc = "train_failed"
    /\ train_counter' = train_counter + 1
    /\ data' = <<>>
    /\ i' = 0
    /\ gradients' = <<>>
    /\ trace' = <<>>
    /\ outputs' = <<>>
    /\ before' = Snapshot
    /\ pc' = "raised"
    /\ UNCHANGED <<ioVars, decoderVars, configVars, optVars, test_counter, loss_metric,
                   runnerVars>>

TrainStepAbort ==
    /\ pc = "train_failed"
    /\ data' = <<>>
    /\ i' = 0
    /\ gradients' = <<>>
    /\ trace' = <<>>
    /\ outputs' = <<>>
    /\ before' = Snapshot
    /\ pc' = "raised"
    /\ UNCHANGED <<ioVars, decoderVars, configVars, optVars, counterVars, loss_metric,
                   runnerVars>>

(* run_step: the counter is updated once train_step has returned *)
TrainRunStepReturn ==
    /\ pc = "train_done"
    /\ train_counter' = train_counter + 1
    /\ data' = <<>>
    /\ i' = 0
    /\ gradients' = <<>>
    /\ trace' = <<>>
    /\ outputs' = <<>>
    /\ before' = Snapshot
    /\ pc' = "idle"
    /\ UNCHANGED <<ioVars, decoderVars, configVars, optVars, test_counter, loss_metric, runnerVars>>

----------------------------------------------------------------------------
(* BaseModel._test_step and BaseModel.test_step, inside                    *)
(* make_test_function's run_step.  An evaluation sub-batch carries the     *)
(* loss the network yields on it.                                          *)

TestBatches(n) == [1..n -> {[loss |-> 1], [loss |-> 2]}]

(* a loop that leaves out sub-batch 0 *)
TestRangeFromOne == IF use_ga THEN 1..(ga_total_steps - 1) ELSE {0}

(* for i in tf.range(self.ga.total_steps), or one call on the whole batch *)
TestRange == IF use_ga THEN 0..(ga_total_steps - 1) ELSE {0}

TestStepBegin ==
    /\ pc = "idle"
    /\ test_counter < MaxTestSteps
    /\ \E d \in TestBatches(IF use_ga THEN ga_total_steps ELSE 1) : data' = d
    /\ i' = 0
    /\ trace' = <<>>
    /\ before' = Snapshot
    /\ outputs' = <<>>
    /\ gradients' = <<>>
    /\ pc' = "test_loop"
    /\ UNCHANGED <<ioVars, decoderVars, configVars, optVars, counterVars, loss_metric, runnerVars>>

(* _test_step with a backward pass and an update, as _train_step has *)
TestStepSubBackward ==
    /\ pc = "test_loop"
    /\ i \in TestRange
    /\ LET sub == slice_batch_tensor(data, i)
           new == sgd_apply(<<F(sub.loss), F(sub.loss)>>)
       IN  /\ loss_metric' = UpdateMean(loss_metric, sub.loss)
           /\ trainable_variables' = new.params
           /\ iterations' = new.iterations
           /\ loss_scale' = new.loss_scale
    /\ trace' = trace \o <<Event("forward", i), Event("compute_loss", i)>>
    /\ i' = i + 1
    /\ UNCHANGED <<ioVars, decoderVars, configVars, counterVars, data, gradients, outputs, before, pc, runnerVars>>

TestStepSub ==
    /\ pc = "test_loop"
    /\ i \in TestRange
    /\ LET sub == slice_batch_tensor(data, i)
       IN  loss_metric' = UpdateMean(loss_metric, sub.loss)
    /\ trace' = trace \o <<Event("forward", i), Event("compute_loss", i)>>
    /\ i' = i + 1
    /\ UNCHANGED <<ioVars, decoderVars, configVars, optVars, counterVars, data, gradients, outputs,
                   before, pc, runnerVars>>

TestStepEnd ==
    /\ pc = "test_loop"
    /\ i \notin TestRange
    /\ outputs' = get_metrics_result
    /\ pc' = "test_done"
    /\ UNCHANGED <<ioVars, decoderVars, configVars, optVars, counterVars, data, i, gradients, trace,
                   before, loss_metric, runnerVars>>

(* run_step: the counter is updated once test_step has returned *)
TestRunStepReturn ==
    /\ pc = "test_done"
    /\ test_counter' = test_counter + 1
    /\ data' = <<>>
    /\ i' = 0
    /\ gradients' = <<>>
    /\ trace' = <<>>
    /\ outputs' = <<>>
    /\ before' = Snapshot
    /\ pc' = "idle"
    /\ UNCHANGED <<ioVars, decoderVars, configVars, optVars, train_counter, loss_metric, runnerVars>>

----------------------------------------------------------------------------
(* The greedy decoder: truncate to the valid length, collapse each run of  *)
(* equal indices, remove the blanks.                                       *)

Blank == 0

(* tf.argmax over the classes of one frame: the first maximal class *)
ArgMax(w) ==
    CHOOSE c \in 0..(Len(w) - 1) :
        /\ \A d \in 0..(Len(w) - 1) : w[d + 1] <= w[c + 1]
        /\ \A d \in 0..(c - 1) : w[d + 1] < w[c + 1]

BestClasses(probs) == [t \in 1..Len(probs) |-> ArgMax(probs[t])]

(* a truncation that stops one entry short of the valid length *)
TruncateShort(s, n) == SubSeq(s, 1, n - 1)

Truncate(s, n) == SubSeq(s, 1, n)

RECURSIVE CollapseRepeats(_)
CollapseRepeats(s) ==
    IF Len(s) <= 1 THEN s
    ELSE IF s[1] = s[2] THEN CollapseRepeats(Tail(s))
    ELSE <<s[1]>> \o CollapseRepeats(Tail(s))

RemoveBlanks(s) == SelectSeq(s, LAMBDA x : x # Blank)

greedy_decode(best, n) == RemoveBlanks(CollapseRepeats(Truncate(best, n)))

(* decoder.decode(probs=..., input_length=...) of the greedy CTC decoder *)
decoder_decode(probs, input_length) ==
    greedy_decode(BestClasses(probs), input_length)

(* decode_lambda_func: decoder.decode(probs=y_pred,                        *)
(*                                    input_length=tf.squeeze(input_length)) *)
decode_lambda_func_full_length(y_pred, input_length) ==
    decoder_decode(y_pred, Len(y_pred))

decode_lambda_func(y_pred, input_length) == decoder_decode(y_pred, input_length)

(* BaseModel.recognize, as the CTC models implement it *)
recognize(probs, length) == decoder_decode(probs, length)

----------------------------------------------------------------------------
(* The beam decoder over per-frame class weights.  A hypothesis is a label *)
(* sequence with the weight of its alignments that end in a blank (pb) and *)
(* of those that end in its last label (pnb); its score is their sum.  At  *)
(* each frame every hypothesis is expanded by every class, candidates that *)
(* give the same label sequence are merged by summing their weights, and   *)
(* the beam_width best are kept, ties in insertion order.                  *)

Hyp(prefix, pb, pnb) == [prefix |-> prefix, pb |-> pb, pnb |-> pnb]

Score(h) == h.pb + h.pnb

InitialBeam == <<Hyp(<<>>, 1, 0)>>

(* the candidates hypothesis h gives when expanded by class c of weight wc *)
Expand(h, c, wc) ==
    IF c = Blank
      THEN <<Hyp(h.prefix, Score(h) * wc, 0)>>
    ELSE IF Len(h.prefix) > 0 /\ h.prefix[Len(h.prefix)] = c
      THEN <<Hyp(h.prefix, 0, h.pnb * wc),
             Hyp(Append(h.prefix, c), 0, h.pb * wc)>>
    ELSE <<Hyp(Append(h.prefix, c), 0, Score(h) * wc)>>

RECURSIVE ExpandClasses(_, _, _)
ExpandClasses(h, w, c) ==
    IF c >= Len(w) THEN <<>>
    ELSE Expand(h, c, w[c + 1]) \o ExpandClasses(h, w, c + 1)

RECURSIVE Candidates(_, _)
Candidates(beam, w) ==
    IF beam = <<>> THEN <<>>
    ELSE ExpandClasses(beam[1], w, 0) \o Candidates(Tail(beam), w)

(* merge candidate h into the merged list: sum into the entry with the     *)
(* same label sequence, or append a new entry                              *)
MergeInto(merged, h) ==
    IF \E k \in 1..Len(merged) : merged[k].prefix = h.prefix
      THEN [k \in 1..Len(merged) |->
              IF merged[k].prefix = h.prefix
                THEN Hyp(h.prefix, merged[k].pb + h.pb, merged[k].pnb + h.pnb)
                ELSE merged[k]]
      ELSE Append(merged, h)

RECURSIVE MergeAll(_, _)
MergeAll(merged, cands) ==
    IF cands = <<>> THEN merged
    ELSE MergeAll(MergeInto(merged, cands[1]), Tail(cands))

(* no merging: every candidate is kept as its own hypothesis *)
MergeNone(cands) == cands

Merge(cands) == MergeAll(<<>>, cands)

(* the last hypothesis of the highest score *)
BestIndexLast(hyps) ==
    CHOOSE k \in 1..Len(hyps) :
        /\ \A j \in 1..Len(hyps) : Score(hyps[j]) <= Score(hyps[k])
        /\ \A j \in (k + 1)..Len(hyps) : Score(hyps[j]) < Score(hyps[k])

(* the first hypothesis of the highest score *)
BestIndex(hyps) ==
    CHOOSE k \in 1..Len(hyps) :
        /\ \A j \in 1..Len(hyps) : Score(hyps[j]) <= Score(hyps[k])
        /\ \A j \in 1..(k - 1) : Score(hyps[j]) < Score(hyps[k])

Remove(hyps, k) == SubSeq(hyps, 1, k - 1) \o SubSeq(hyps, k + 1, Len(hyps))

(* no pruning: every merged hypothesis is kept *)
TopKAll(hyps, k) == hyps

RECURSIVE TopK(_, _)
TopK(hyps, k) ==
    IF k = 0 \/ hyps = <<>> THEN <<>>
    ELSE LET b == BestIndex(hyps)
         IN  <<hyps[b]>> \o TopK(Remove(hyps, b), k - 1)

BeamStep(beam, w, beam_width) == TopK(Merge(Candidates(beam, w)), beam_width)

RECURSIVE BeamSearch(_, _, _, _)
BeamSearch(beam, probs, t, beam_width) ==
    IF t > Len(probs) THEN beam
    ELSE BeamSearch(BeamStep(beam, probs[t], beam_width), probs, t + 1, beam_width)

beam_decode(probs, length, beam_width) ==
    LET final == BeamSearch(InitialBeam, Truncate(probs, length), 1, beam_width)
    IN  IF final = <<>> THEN <<>> ELSE final[1].prefix

(* BaseModel.recognize_beam(inputs, beam_width=10) *)
DefaultBeamWidth == 10

recognize_beam(probs, length, beam_width) == beam_decode(probs, length, beam_width)

(* per-frame class weights (blank, class 1, class 2) *)
Distributions == { <<6, 2, 2>>, <<4, 6, 0>>, <<3, 3, 4>> }

RECURSIVE SeqsUpTo(_, _)
SeqsUpTo(S, n) ==
    IF n = 0 THEN {<<>>}
    ELSE LET shorter == SeqsUpTo(S, n - 1)
         IN  shorter \cup {Append(q, x) : q \in {r \in shorter : Len(r) = n - 1}, x \in S}

----------------------------------------------------------------------------
(* BaseModel.predict_step.  A prediction example carries the per-frame     *)
(* class weights the network yields on it, its length and its labels.      *)

LabelValues == { <<1>>, <<1, 2>> }

PredictBatches ==
    UNION { { [probs |-> p, length |-> n, labels |-> l] :
                n \in 0..Len(p), l \in LabelValues } :
            p \in SeqsUpTo(Distributions, MaxPredictFrames) }

(* predict_step that returns the greedy tokens for both decoders *)
PredictStepGreedyOnly ==
    /\ pc = "idle"
    /\ \E b \in PredictBatches :
          /\ data' = b
          /\ outputs' = [_tokens |-> recognize(b.probs, b.length),
                         _beam_tokens |-> recognize(b.probs, b.length),
                         _labels |-> b.labels]
    /\ trace' = <<Event("recognize", 0)>>
    /\ pc' = "predict_done"
    /\ UNCHANGED <<ioVars, decoderVars, configVars, optVars, counterVars, i, gradients, before,
                   loss_metric, runnerVars>>

PredictStep ==
    /\ pc = "idle"
    /\ \E b \in PredictBatches :
          /\ data' = b
          /\ outputs' = [_tokens |-> recognize(b.probs, b.length),
                         _beam_tokens |->
                             recognize_beam(b.probs, b.length, DefaultBeamWidth),
                         _labels |-> b.labels]
    /\ trace' = <<Event("recognize", 0), Event("recognize_beam", 0)>>
    /\ pc' = "predict_done"
    /\ UNCHANGED <<ioVars, decoderVars, configVars, optVars, counterVars, i, gradients, before,
                   loss_metric, runnerVars>>

PredictReturn ==
    /\ pc = "predict_done"
    /\ data' = <<>>
    /\ trace' = <<>>
    /\ outputs' = <<>>
    /\ pc' = "idle"
    /\ UNCHANGED <<ioVars, decoderVars, configVars, optVars, counterVars, i, gradients, before,
                   loss_metric, runnerVars>>

----------------------------------------------------------------------------
(* runners/ctc_runners.py: CTCTrainer and CTCTester.  utils.metrics.wer    *)
(* and cer are not part of the sources: an evaluation batch carries the    *)
(* loss and the (n, d) pairs they yield on its decoded predictions.        *)

EvalBatches ==
    { [loss |-> 1, wer |-> <<0, 1>>, cer |-> <<0, 2>>],
      [loss |-> 2, wer |-> <<1, 1>>, cer |-> <<1, 3>>],
      [loss |-> 3, wer |-> <<1, 2>>, cer |-> <<2, 4>>] }

ZeroMean == [total |-> 0, count |-> 0]

(* ErrorRate.__init__: numerator and denominator start at zero *)
ZeroErrorRate == [numerator |-> 0, denominator |-> 0]

(* an update that assigns the pair instead of adding it *)
update_state_assign(m, nd) == [numerator |-> nd[1], denominator |-> nd[2]]

(* ErrorRate.update_state, with (n, d) = self.func(decode, target) *)
update_state(m, nd) ==
    [numerator |-> m.numerator + nd[1], denominator |-> m.denominator + nd[2]]

(* keras Metric.reset_states: every weight back to zero *)
ZeroMetrics == [ctc_loss |-> ZeroMean, wer |-> ZeroErrorRate, cer |-> ZeroErrorRate]

UpdateMetrics(m, b) ==
    [ctc_loss |-> UpdateMean(m.ctc_loss, b.loss),
     wer |-> update_state(m.wer, b.wer),
     cer |-> update_state(m.cer, b.cer)]

EvalStepTrace ==
    <<Event("forward", 0), Event("ctc_loss", 0), Event("decode", 0),
      Event("update_state_ctc_loss", 0), Event("update_state_wer", 0),
      Event("update_state_cer", 0)>>

(* CTCTrainer.__init__, compile and fit *)
TrainerCompile ==
    /\ pc = "new"
    /\ \E mp \in BOOLEAN :
          /\ is_mixed_precision' = mp
          /\ optimizer' = IF mp THEN "LossScaleOptimizer" ELSE "SGD"
    /\ \E loader \in SeqsUpTo(EvalBatches, MaxEvalSteps) : eval_data_loader' = loader
    /\ train_metrics' = [ctc_loss |-> ZeroMean]
    /\ eval_metrics' = ZeroMetrics
    /\ pc' = "trainer_idle"
    /\ UNCHANGED <<ioVars, decoderVars, compiled, ga_steps, use_ga, ga_total_steps, use_loss_scale, optVars,
                   counterVars, stepVars, loss_metric, test_metrics, reported>>

(* what CTCTrainer._train_step does, in order *)
TrainerStepEvents ==
    <<Event("_train_step", 0)>>
      \o (IF is_mixed_precision
            THEN <<Event("get_scaled_loss", 0), Event("backward", 0),
                   Event("get_unscaled_gradients", 0)>>
            ELSE <<Event("backward", 0)>>)
      \o <<Event("apply_gradients", NoIndex)>>

(* CTCTrainer._train_step *)
TrainerTrainStep ==
    /\ pc = "trainer_idle"
    /\ train_counter < MaxTrainSteps
    /\ \E b \in {SubBatch(e, 1) : e \in Examples} :
          LET g == IF is_mixed_precision
                     THEN get_unscaled_gradients(get_scaled_loss(b.grad))
                     ELSE b.grad
              new == apply_gradients(g)
          IN  /\ data' = <<b>>
              /\ gradients' = g
              /\ trainable_variables' = new.params
              /\ iterations' = new.iterations
              /\ loss_scale' = new.loss_scale
              /\ train_metrics' =
                     [ctc_loss |-> UpdateMean(train_metrics.ctc_loss, b.loss)]
    /\ before' = Snapshot
    /\ trace' = TrainerStepEvents
    /\ pc' = "trainer_train_done"
    /\ UNCHANGED <<ioVars, decoderVars, configVars, counterVars, i, outputs, loss_metric,
                   is_mixed_precision, eval_data_loader, eval_metrics,
                   test_metrics, reported>>

(* back in the training loop: self.steps advances *)
TrainerTrainReturn ==
    /\ pc = "trainer_train_done"
    /\ train_counter' = train_counter + 1
    /\ data' = <<>>
    /\ gradients' = <<>>
    /\ trace' = <<>>
    /\ before' = Snapshot
    /\ pc' = "trainer_idle"
    /\ UNCHANGED <<ioVars, decoderVars, configVars, optVars, test_counter, i, outputs, loss_metric,
                   runnerVars>>

(* CTCTrainer._eval_epoch up to its loop *)
EvalEpochBegin ==
    /\ pc = "trainer_idle"
    /\ IF eval_data_loader = <<>>
         THEN UNCHANGED <<pc, i, reported, before, trace>>
         ELSE /\ pc' = "eval_loop"
              /\ i' = 0
              /\ reported' = <<>>
              /\ before' = Snapshot
              /\ trace' = <<>>
    /\ UNCHANGED <<ioVars, decoderVars, configVars, optVars, counterVars, data, gradients, outputs,
                   loss_metric, is_mixed_precision, eval_data_loader,
                   train_metrics, eval_metrics, test_metrics>>

(* CTCTrainer._eval_step without the decoder *)
EvalStepNoDecode ==
    /\ pc = "eval_loop"
    /\ i < Len(eval_data_loader)
    /\ eval_metrics' =
           [eval_metrics EXCEPT !.ctc_loss =
               UpdateMean(eval_metrics.ctc_loss, eval_data_loader[i + 1].loss)]
    /\ trace' = <<Event("forward", 0), Event("ctc_loss", 0),
                  Event("update_state_ctc_loss", 0)>>
    /\ i' = i + 1
    /\ UNCHANGED <<ioVars, decoderVars, configVars, optVars, counterVars, data, gradients, outputs,
                   before, loss_metric, pc, is_mixed_precision, eval_data_loader,
                   train_metrics, test_metrics, reported>>

(* CTCTrainer._eval_step on the next batch of the loader *)
EvalStep ==
    /\ pc = "eval_loop"
    /\ i < Len(eval_data_loader)
    /\ eval_metrics' = UpdateMetrics(eval_metrics, eval_data_loader[i + 1])
    /\ trace' = EvalStepTrace
    /\ i' = i + 1
    /\ UNCHANGED <<ioVars, decoderVars, configVars, optVars, counterVars, data, gradients, outputs,
                   before, loss_metric, pc, is_mixed_precision, eval_data_loader,
                   train_metrics, test_metrics, reported>>

(* CTCTrainer._eval_epoch without the reset of its metrics *)
EvalEpochEndNoReset ==
    /\ pc = "eval_loop"
    /\ i = Len(eval_data_loader)
    /\ reported' = <<eval_metrics>>
    /\ trace' = <<>>
    /\ pc' = "trainer_idle"
    /\ UNCHANGED <<ioVars, decoderVars, configVars, optVars, counterVars, data, i, gradients, outputs,
                   before, loss_metric, is_mixed_precision, eval_data_loader,
                   train_metrics, eval_metrics, test_metrics>>

(* CTCTrainer._eval_epoch after its loop: log, write, reset *)
EvalEpochEnd ==
    /\ pc = "eval_loop"
    /\ i = Len(eval_data_loader)
    /\ reported' = <<eval_metrics>>
    /\ eval_metrics' = ZeroMetrics
    /\ trace' = <<>>
    /\ pc' = "trainer_idle"
    /\ UNCHANGED <<ioVars, decoderVars, configVars, optVars, counterVars, data, i, gradients, outputs,
                   before, loss_metric, is_mixed_precision, eval_data_loader,
                   train_metrics, test_metrics>>

(* CTCTester.__init__ *)
TesterInit ==
    /\ pc = "new"
    /\ test_metrics' = ZeroMetrics
    /\ pc' = "tester_idle"
    /\ UNCHANGED <<ioVars, decoderVars, configVars, optVars, counterVars, stepVars, loss_metric,
                   is_mixed_precision, eval_data_loader, train_metrics,
                   eval_metrics, reported>>

(* CTCTester._test_step *)
TesterTestStep ==
    /\ pc \in {"tester_idle", "tester_step_done"}
    /\ test_counter < MaxEvalSteps
    /\ \E b \in EvalBatches :
          /\ data' = <<b>>
          /\ test_metrics' = UpdateMetrics(test_metrics, b)
    /\ trace' = EvalStepTrace
    /\ test_counter' = test_counter + 1
    /\ before' = Snapshot
    /\ pc' = "tester_step_done"
    /\ UNCHANGED <<ioVars, decoderVars, configVars, optVars, train_counter, i, gradients, outputs,
                   loss_metric, is_mixed_precision, eval_data_loader,
                   train_metrics, eval_metrics, reported>>

----------------------------------------------------------------------------
(* models/CTCModel.py: the decode lambda of the inference model, and the   *)
(* two decoders side by side on one input.                                 *)

DecodeInputs ==
    UNION { { [probs |-> p, length |-> n] : n \in 0..Len(p) } :
            p \in SeqsUpTo(Distributions, MaxFrames) }

DecodeLambda ==
    /\ pc = "new"
    /\ \E in \in DecodeInputs :
          /\ data' = in
          /\ outputs' = [tokens |-> decode_lambda_func(in.probs, in.length)]
    /\ trace' = <<Event("decode_lambda_func", 0)>>
    /\ pc' = "decoded"
    /\ UNCHANGED <<ioVars, decoderVars, configVars, optVars, counterVars, i, gradients, before,
                   loss_metric, runnerVars>>

(* the greedy decoder run again on the tokens it has returned, with their  *)
(* full length as the valid length                                         *)
DecodeAgain ==
    /\ pc = "decoded"
    /\ data' = [best |-> outputs.tokens, length |-> Len(outputs.tokens)]
    /\ outputs' = [tokens |-> greedy_decode(outputs.tokens, Len(outputs.tokens))]
    /\ trace' = <<Event("greedy_decode", 0)>>
    /\ pc' = "redecoded"
    /\ UNCHANGED <<ioVars, decoderVars, configVars, optVars, counterVars, i, gradients,
                   before, loss_metric, runnerVars>>

BeamInputs ==
    UNION { { [probs |-> p, length |-> n, beam_width |-> w] :
                n \in 0..Len(p), w \in 1..MaxBeamWidth } :
            p \in SeqsUpTo(Distributions, MaxBeamFrames) }

RecognizeBoth ==
    /\ pc = "new"
    /\ \E in \in BeamInputs :
          /\ data' = in
          /\ outputs' = [tokens |-> recognize(in.probs, in.length),
                         beam_tokens |->
                             recognize_beam(in.probs, in.length, in.beam_width)]
    /\ trace' = <<Event("recognize", 0), Event("recognize_beam", 0)>>
    /\ pc' = "recognized"
    /\ UNCHANGED <<ioVars, decoderVars, configVars, optVars, counterVars, i, gradients, before,
                   loss_metric, runnerVars>>

----------------------------------------------------------------------------
(* BaseModel.make_tflite_function: tflite_func closes over beam_width and  *)
(* decodes with recognize_beam when it is positive, with recognize         *)
(* otherwise.                                                              *)

TfliteInputs ==
    UNION { { [probs |-> p, length |-> n] : n \in 0..Len(p) } :
            p \in SeqsUpTo({ <<4, 6, 0>>, <<3, 3, 4>> }, MaxBeamFrames) }

tflite_func_always_greedy(inputs, beam_width) ==
    [op |-> "recognize", tokens |-> recognize(inputs.probs, inputs.length)]

tflite_func(inputs, beam_width) ==
    IF beam_width > 0
      THEN [op |-> "recognize_beam",
            tokens |-> recognize_beam(inputs.probs, inputs.length, beam_width)]
      ELSE [op |-> "recognize",
            tokens |-> recognize(inputs.probs, inputs.length)]

(* the record of one call: the decoder it ran, its input, its tokens *)
Call(op, inputs, tokens) == [op |-> op, index |-> 0, inputs |-> inputs, tokens |-> tokens]

LastCall(tr) == IF tr = <<>> THEN <<>> ELSE <<tr[Len(tr)]>>

MakeTfliteFunction ==
    /\ pc = "new"
    /\ \E w \in 0..MaxBeamWidth : tflite_beam_width' = w
    /\ pc' = "tflite_ready"
    /\ UNCHANGED <<ioVars, hypotheses, configVars, optVars, counterVars, stepVars,
                   loss_metric, runnerVars>>

(* one call of the function; of the calls before it the last is kept *)
TfliteFunc ==
    /\ pc = "tflite_ready"
    /\ \E in \in TfliteInputs :
          LET out == tflite_func(in, tflite_beam_width)
          IN  /\ data' = in
              /\ outputs' = [tokens |-> out.tokens]
              /\ trace' = LastCall(trace) \o <<Call(out.op, in, out.tokens)>>
    /\ pc' = "tflite_called"
    /\ UNCHANGED <<ioVars, decoderVars, configVars, optVars, counterVars, i, gradients,
                   before, loss_metric, runnerVars>>

TfliteReturn ==
    /\ pc = "tflite_called"
    /\ data' = <<>>
    /\ outputs' = <<>>
    /\ pc' = "tflite_ready"
    /\ UNCHANGED <<ioVars, decoderVars, configVars, optVars, counterVars, i, gradients,
                   trace, before, loss_metric, runnerVars>>

----------------------------------------------------------------------------
(* The beam search of recognize_beam, one frame at a time.  The search     *)
(* takes one step per frame of the valid length and ends after the last:   *)
(* a hypothesis grows by at most one label per step.                       *)

UniformDistribution == <<2, 2, 2>>

StepInputs ==
    UNION { { [probs |-> p, length |-> n, beam_width |-> w] :
                n \in 0..Len(p), w \in 1..MaxStepBeamWidth } :
            p \in SeqsUpTo(Distributions \cup {UniformDistribution},
                           MaxStepFrames) }

BeamNeverFinished(t, length) == FALSE

BeamFinished(t, length) == t >= length

BeamSearchBegin ==
    /\ pc = "new"
    /\ \E in \in StepInputs : data' = in
    /\ hypotheses' = InitialBeam
    /\ i' = 0
    /\ outputs' = <<>>
    /\ trace' = <<>>
    /\ pc' = "beam_loop"
    /\ UNCHANGED <<ioVars, tflite_beam_width, configVars, optVars, counterVars,
                   gradients, before, loss_metric, runnerVars>>

(* a frame of the valid length is left *)
BeamSearchStepEnabled == pc = "beam_loop" /\ i < data.length

(* one step: expand, merge, keep the beam_width best *)
BeamSearchStep ==
    /\ BeamSearchStepEnabled
    /\ hypotheses' = BeamStep(hypotheses, data.probs[i + 1], data.beam_width)
    /\ outputs' = [candidates |-> Candidates(hypotheses, data.probs[i + 1]),
                    merged |-> Merge(Candidates(hypotheses, data.probs[i + 1]))]
    /\ trace' = <<Event("beam_step", i)>>
    /\ i' = i + 1
    /\ UNCHANGED <<ioVars, tflite_beam_width, configVars, optVars, counterVars, data,
                   gradients, before, loss_metric, pc, runnerVars>>

(* after the last frame: the tokens of the best hypothesis *)
BeamSearchEnd ==
    /\ pc = "beam_loop"
    /\ BeamFinished(i, data.length)
    /\ outputs' = [tokens |-> IF hypotheses = <<>> THEN <<>>
                                                  ELSE hypotheses[1].prefix]
    /\ trace' = <<>>
    /\ pc' = "beam_done"
    /\ UNCHANGED <<ioVars, decoderVars, configVars, optVars, counterVars, data, i,
                   gradients, before, loss_metric, runnerVars>>

BeamSearchReturn ==
    /\ pc = "beam_done"
    /\ data' = <<>>
    /\ hypotheses' = <<>>
    /\ i' = 0
    /\ outputs' = <<>>
    /\ pc' = "new"
    /\ UNCHANGED <<ioVars, tflite_beam_width, configVars, optVars, counterVars, trace,
                   gradients, before, loss_metric, runnerVars>>

----------------------------------------------------------------------------
(* models/CTCModel.py: ctc_lambda_func and CTCLoss.call.  tf.nn.ctc_loss   *)
(* on dense labels is the negative logarithm of the total weight of the    *)
(* alignments of the first logit_length frames that collapse to the first  *)
(* label_length labels; it is computed from tensor operations alone and    *)
(* is infinite, with no error raised, when there is no such alignment.  A  *)
(* loss is held as the weight it is the negative logarithm of.             *)

(* the labels with a blank before, between and after them *)
Extended(labels) ==
    [s \in 1..(2 * Len(labels) + 1) |->
        IF s % 2 = 1 THEN Blank ELSE labels[s \div 2]]

RECURSIVE Alpha(_, _, _)
Alpha(probs, ext, t) ==
    IF t = 1
      THEN [s \in 1..Len(ext) |-> IF s <= 2 THEN probs[1][ext[s] + 1] ELSE 0]
      ELSE LET prev == Alpha(probs, ext, t - 1)
           IN  [s \in 1..Len(ext) |->
                  ( prev[s]
                    + (IF s > 1 THEN prev[s - 1] ELSE 0)
                    + (IF s > 2 /\ ext[s] # Blank /\ ext[s] # ext[s - 2]
                         THEN prev[s - 2] ELSE 0) )
                  * probs[t][ext[s] + 1]]

Likelihood(probs, logit_length, labels, label_length) ==
    LET ext == Extended(Truncate(labels, label_length))
    IN  IF logit_length = 0
          THEN (IF label_length = 0 THEN 1 ELSE 0)
          ELSE LET last == Alpha(probs, ext, logit_length)
               IN  last[Len(ext)] + (IF Len(ext) > 1 THEN last[Len(ext) - 1] ELSE 0)

(* a loss that scores every frame it is given, padding included *)
ctc_loss_all_frames(labels, logits, label_length, logit_length) ==
    LET w == Likelihood(logits, Len(logits), labels, label_length)
    IN  [nf |-> w = 0, weight |-> w]

ctc_loss(labels, logits, label_length, logit_length) ==
    LET w == Likelihood(logits, logit_length, labels, label_length)
    IN  [nf |-> w = 0, weight |-> w]

(* ctc_lambda_func(args), for one example of the batch *)
ctc_lambda_func(e) == ctc_loss(e.labels, e.y_pred, e.label_length, e.input_length)

RECURSIVE Product(_)
Product(q) == IF q = <<>> THEN 1 ELSE q[1] * Product(Tail(q))

(* CTCLoss.call: tf.reduce_mean(tf.squeeze(y_pred)) over the batch *)
CTCLoss_call(losses) ==
    [nf |-> \E k \in 1..Len(losses) : losses[k].nf,
     weight |-> Product([k \in 1..Len(losses) |-> losses[k].weight]),
     count |-> Len(losses)]

LossDistributions == { <<6, 2, 2>>, <<3, 3, 4>> }

LossLabels == { <<1, 2>>, <<1, 1>> }

LossExamples ==
    UNION { { [y_pred |-> p, input_length |-> n, labels |-> l, label_length |-> m] :
                n \in 1..Len(p), l \in LossLabels, m \in 0..2 } :
            p \in {q \in SeqsUpTo(LossDistributions, MaxLossFrames) :
                       Len(q) = MaxLossFrames} }

(* the train model on one batch: the loss layer, then the compiled loss *)
TrainModelLoss ==
    /\ pc = "new"
    /\ \E batch \in [1..2 -> LossExamples] :
          /\ data' = batch
          /\ outputs' =
                [raised |-> FALSE,
                 loss |-> CTCLoss_call([k \in 1..Len(batch) |->
                                           ctc_lambda_func(batch[k])])]
    /\ trace' = <<Event("ctc_lambda_func", 0), Event("CTCLoss.call", 0)>>
    /\ pc' = "loss_done"
    /\ UNCHANGED <<ioVars, decoderVars, configVars, optVars, counterVars, i, gradients, before,
                   loss_metric, runnerVars>>

(* frames a batch is padded with beyond the declared length of an example *)
PaddingFrames == { <<6, 0, 0>>, <<3, 3, 4>> }

Paddings == SeqsUpTo(PaddingFrames, MaxPadFrames) \ {<<>>}

(* ctc_lambda_func on one example, and on the same example padded with     *)
(* more frames, its declared input_length unchanged                        *)
PaddedLoss ==
    /\ pc = "new"
    /\ \E e \in LossExamples, pad \in Paddings :
          /\ data' = [example |-> e, pad |-> pad]
          /\ outputs' =
                [plain |-> ctc_lambda_func(e),
                 padded |-> ctc_lambda_func([e EXCEPT !.y_pred = @ \o pad])]
    /\ trace' = <<Event("ctc_lambda_func", 0), Event("ctc_lambda_func", 1)>>
    /\ pc' = "padded_done"
    /\ UNCHANGED <<ioVars, decoderVars, configVars, optVars, counterVars, i, gradients,
                   before, loss_metric, runnerVars>>

(* the call returns: the next call starts from the state before it *)
----------------------------------------------------------------------------
(* BaseModel.make_train_function.  step_function takes the next batch from *)
(* the iterator and runs run_step on it: train_step, then the increment of *)
(* the train counter.  train_function calls step_function once when        *)
(* steps_per_execution is unset or 1, and steps_per_execution times in a   *)
(* loop otherwise, and returns the outputs of the last call.               *)

MaxStepsPerExecution == 2

MaxIteratorLen == 3

StepsPerExecutionValues == {None} \cup {Int1(n) : n \in 1..MaxStepsPerExecution}

IteratorBatches == {e \in Examples : e.loss = 2}

Iterators == SeqsUpTo(IteratorBatches, MaxIteratorLen) \ {<<>>}

(* a train function that runs one step whatever steps_per_execution is *)
train_function_steps_single(spe) == 1

(* the calls of step_function one call of train_function makes *)
train_function_steps(spe) ==
    IF spe = None \/ spe[1] = 1 THEN 1 ELSE spe[1]

(* compile(steps_per_execution=...) with accumulation and mixed precision  *)
(* off, then make_train_function, on a fresh iterator                      *)
MakeTrainFunction ==
    /\ pc = "new"
    /\ \E spe \in StepsPerExecutionValues : steps_per_execution' = spe
    /\ \E it \in Iterators : iterator' = it
    /\ compiled' = TRUE
    /\ pc' = "fn_ready"
    /\ UNCHANGED <<recordVars, seganVars, decoderVars, ga_steps, use_ga,
                   ga_total_steps, use_loss_scale, optimizer, optVars,
                   counterVars, stepVars, loss_metric, runnerVars>>

(* train_function(iterator) is entered *)
TrainFunctionCall ==
    /\ pc = "fn_ready"
    /\ iterator # <<>>
    /\ before' = [iterator |-> iterator, train_counter |-> train_counter]
    /\ i' = 0
    /\ trace' = <<>>
    /\ outputs' = <<>>
    /\ pc' = "fn_loop"
    /\ UNCHANGED <<ioVars, decoderVars, configVars, optVars, counterVars, data,
                   gradients, loss_metric, runnerVars>>

(* step_function: data = next(iterator); run_step(data) *)
TrainFunctionStep ==
    /\ pc = "fn_loop"
    /\ i < train_function_steps(steps_per_execution)
    /\ iterator # <<>>
    /\ LET batch == Head(iterator)
           new == apply_gradients(_train_step(batch))
       IN  /\ trainable_variables' = new.params
           /\ iterations' = new.iterations
           /\ loss_scale' = new.loss_scale
           /\ loss_metric' = UpdateMean(loss_metric, batch.loss)
           /\ outputs' = [step |-> i,
                          loss |-> UpdateMean(loss_metric, batch.loss)]
           /\ trace' = Append(trace, [op |-> "train_step", index |-> i,
                                      batch |-> batch])
    /\ iterator' = Tail(iterator)
    /\ train_counter' = train_counter + 1
    /\ i' = i + 1
    /\ UNCHANGED <<steps_per_execution, recordVars, seganVars, decoderVars,
                   configVars, test_counter, data, gradients, before, pc,
                   runnerVars>>

(* next(iterator) on an iterator that has run out: the error leaves the    *)
(* train function                                                          *)
TrainFunctionExhausted ==
    /\ pc = "fn_loop"
    /\ i < train_function_steps(steps_per_execution)
    /\ iterator = <<>>
    /\ trace' = Append(trace, [op |-> "error", index |-> i, batch |-> <<>>])
    /\ pc' = "fn_raised"
    /\ UNCHANGED <<ioVars, decoderVars, configVars, optVars, counterVars, data,
                   i, gradients, outputs, before, loss_metric, runnerVars>>

(* return outputs *)
TrainFunctionReturn ==
    /\ pc = "fn_loop"
    /\ i >= train_function_steps(steps_per_execution)
    /\ pc' = "fn_done"
    /\ UNCHANGED <<ioVars, decoderVars, configVars, optVars, counterVars,
                   stepVars, loss_metric, runnerVars>>

(* the caller has the outputs; the next call may follow *)
TrainFunctionDone ==
    /\ pc = "fn_done"
    /\ before' = Snapshot
    /\ i' = 0
    /\ trace' = <<>>
    /\ outputs' = <<>>
    /\ pc' = "fn_ready"
    /\ UNCHANGED <<ioVars, decoderVars, configVars, optVars, counterVars, data,
                   gradients, loss_metric, runnerVars>>

----------------------------------------------------------------------------
(* The dataset pipeline: preprocess gives each example its features and    *)
(* label with their lengths, padded_batch pads every row of a batch to the *)
(* longest of the batch.  Dataset pads labels with num_classes - 1,        *)
(* ASRDatasetKeras with text_featurizer.blank.                             *)

MaxBatchFrames == 2

MaxLabelLen == 1

Pipelines == {"Dataset", "ASRDatasetKeras"}

(* the classes the model scores, the blank included *)
num_classes == Len(UniformDistribution)

text_featurizer_blank == Blank

(* the label ids compute_label_features gives: the vocabulary, without the *)
(* blank                                                                   *)
LabelIds(pipeline) ==
    IF pipeline = "Dataset" THEN 0..(num_classes - 2)
                            ELSE (0..(num_classes - 1)) \ {text_featurizer_blank}

(* a label padding of class 0 whatever the pipeline *)
label_padding_value_zero(pipeline) == 0

label_padding_value(pipeline) ==
    IF pipeline = "Dataset" THEN num_classes - 1 ELSE text_featurizer_blank

(* feature frames, each a non-zero value; 0 is the feature padding *)
FeatureFrames == {1, 2}

FeaturePadding == 0

RawExamples(pipeline) ==
    { [features |-> f, label |-> l] :
        f \in SeqsUpTo(FeatureFrames, MaxBatchFrames),
        l \in SeqsUpTo(LabelIds(pipeline), MaxLabelLen) }

(* Dataset.preprocess: the lengths are the first dimension of the tensors *)
preprocess(raw) ==
    [features |-> raw.features, input_length |-> Len(raw.features),
     label |-> raw.label, label_length |-> Len(raw.label)]

PadTo(q, n, v) == q \o [k \in 1..(n - Len(q)) |-> v]

MaxOf(S) == CHOOSE x \in S : \A y \in S : y <= x

(* dataset.padded_batch with padded shape None: every row is padded to the *)
(* longest row of the batch, scalars are left as they are                  *)
padded_batch(rows, label_padding) ==
    LET time == MaxOf({Len(rows[r].features) : r \in 1..Len(rows)})
        labels == MaxOf({Len(rows[r].label) : r \in 1..Len(rows)})
    IN  [r \in 1..Len(rows) |->
           [features |-> PadTo(rows[r].features, time, FeaturePadding),
            input_length |-> rows[r].input_length,
            label |-> PadTo(rows[r].label, labels, label_padding),
            label_length |-> rows[r].label_length]]

(* one batch of two examples leaves the pipeline *)
PaddedBatch ==
    /\ pc = "new"
    /\ \E pipeline \in Pipelines :
          \E raw \in [1..2 -> RawExamples(pipeline)] :
             data' = [pipeline |-> pipeline,
                      examples |-> raw,
                      padding |-> label_padding_value(pipeline),
                      batch |-> padded_batch([r \in 1..2 |-> preprocess(raw[r])],
                                             label_padding_value(pipeline))]
    /\ outputs' = <<>>
    /\ trace' = <<Event("padded_batch", 0)>>
    /\ pc' = "batched"
    /\ UNCHANGED <<ioVars, decoderVars, configVars, optVars, counterVars, i, gradients,
                   before, loss_metric, runnerVars>>

(* the class weights the model gives a feature frame; what it gives a      *)
(* padding frame is not determined by the example: fill                    *)
AcousticOutput(f, fill) ==
    IF f = FeaturePadding THEN fill
    ELSE IF f = 1 THEN <<4, 6, 0>> ELSE <<3, 3, 4>>

Logits(features, fill) ==
    [t \in 1..Len(features) |-> AcousticOutput(features[t], fill)]

(* decoding and loss of one padded row, with its declared lengths *)
RowResult(row, fill, label_fill) ==
    LET logits == Logits(row.features, fill)
        labels == [k \in 1..Len(row.label) |->
                      IF k > row.label_length THEN label_fill ELSE row.label[k]]
    IN  [tokens |-> decode_lambda_func(logits, row.input_length),
         loss |-> ctc_loss(labels, logits, row.label_length, row.input_length)]

(* decoding that takes the padded length of the row as its valid length *)
BatchDecodeFullLength ==
    /\ pc = "batched"
    /\ \E fill \in Distributions, other \in Distributions :
          outputs' =
             [fill |-> fill, other |-> other,
              first |-> [r \in 1..Len(data.batch) |->
                           [tokens |-> decode_lambda_func(
                                          Logits(data.batch[r].features, fill),
                                          Len(data.batch[r].features)),
                            loss |-> RowResult(data.batch[r], fill,
                                               data.padding).loss]],
              second |-> [r \in 1..Len(data.batch) |->
                           [tokens |-> decode_lambda_func(
                                          Logits(data.batch[r].features, other),
                                          Len(data.batch[r].features)),
                            loss |-> RowResult(data.batch[r], other,
                                               data.padding).loss]]]
    /\ trace' = <<Event("decode", 0), Event("decode", 1)>>
    /\ pc' = "batch_decoded"
    /\ UNCHANGED <<ioVars, decoderVars, configVars, optVars, counterVars, data, i,
                   gradients, before, loss_metric, runnerVars>>

(* the batch decoded and scored twice: the two runs agree on every valid   *)
(* position and differ in what stands at the padded positions of the       *)
(* logits and of the labels                                                *)
BatchDecode ==
    /\ pc = "batched"
    /\ \E fill \in Distributions, other \in Distributions :
          outputs' =
             [fill |-> fill, other |-> other,
              first |-> [r \in 1..Len(data.batch) |->
                           RowResult(data.batch[r], fill, data.padding)],
              second |-> [r \in 1..Len(data.batch) |->
                           RowResult(data.batch[r], other,
                                     (data.padding + 1) % num_classes)]]
    /\ trace' = <<Event("decode", 0), Event("decode", 1)>>
    /\ pc' = "batch_decoded"
    /\ UNCHANGED <<ioVars, decoderVars, configVars, optVars, counterVars, data, i,
                   gradients, before, loss_metric, runnerVars>>

----------------------------------------------------------------------------
(* ASRTFRecordDatasetKeras.create_tfrecords.  The first call that finds no *)
(* shard file of the stage splits the entries into tfrecords_shards parts  *)
(* and hands each part with its shard path to a worker of a process pool;  *)
(* the workers run concurrently, each opens its file and writes its        *)
(* entries one by one.  A call that finds a shard file returns at once.    *)

MaxEntries == 3

MaxShards == 3

MaxCreateCalls == 2

NoFiles == [s \in {} |-> <<>>]

(* self.read_entries(): the entries of the data files, each its own *)
read_entries(n) == [e \in 1..n |-> e]

(* np.array_split(entries, shards)[s]: contiguous parts, the first         *)
(* len % shards of them one entry longer                                   *)
array_split_start(n, shards, s) ==
    (s - 1) * (n \div shards)
      + (IF s - 1 <= n % shards THEN s - 1 ELSE n % shards)

array_split_size(n, shards, s) ==
    (n \div shards) + (IF s - 1 < n % shards THEN 1 ELSE 0)

(* a split that hands every worker all the entries *)
array_split_whole(entries, shards, s) == entries

array_split(entries, shards, s) ==
    SubSeq(entries,
           array_split_start(Len(entries), shards, s) + 1,
           array_split_start(Len(entries), shards, s)
             + array_split_size(Len(entries), shards, s))

(* ASRTFRecordDatasetKeras.__init__ on an empty tfrecords directory;       *)
(* tfrecords_shards <= 0 raises ValueError                                 *)
DatasetInit ==
    /\ pc = "new"
    /\ \E n \in 0..MaxEntries, shards \in 1..MaxShards :
          data' = [entries |-> read_entries(n), tfrecords_shards |-> shards]
    /\ tfrecord_files' = NoFiles
    /\ workers' = <<>>
    /\ i' = 0
    /\ trace' = <<>>
    /\ outputs' = <<>>
    /\ pc' = "ds_ready"
    /\ UNCHANGED <<driverVars, seganVars, decoderVars, configVars, optVars,
                   counterVars, gradients, before, loss_metric, runnerVars>>

(* create(): create_tfrecords up to the start of the pool *)
CreateTfrecords ==
    /\ pc = "ds_ready"
    /\ i < MaxCreateCalls
    /\ IF DOMAIN tfrecord_files # {}
         THEN /\ outputs' = [have_data |-> TRUE, dataset |-> <<"dataset">>]
              /\ pc' = "ds_created"
              /\ UNCHANGED workers
       ELSE IF Len(data.entries) <= 0
         THEN /\ outputs' = [have_data |-> FALSE, dataset |-> None]
              /\ pc' = "ds_created"
              /\ UNCHANGED workers
       ELSE /\ workers' = [s \in 1..data.tfrecords_shards |->
                             [entries |-> array_split(data.entries,
                                                      data.tfrecords_shards, s),
                              written |-> 0,
                              open |-> FALSE]]
            /\ outputs' = <<>>
            /\ pc' = "ds_writing"
    /\ UNCHANGED <<driverVars, tfrecord_files, seganVars, decoderVars,
                   configVars, optVars, counterVars, data, i, gradients, trace,
                   before, loss_metric, runnerVars>>

(* write_tfrecord_file: tf.io.TFRecordWriter(shard_path) creates the file *)
WorkerOpen(s) ==
    /\ pc = "ds_writing"
    /\ ~workers[s].open
    /\ workers' = [workers EXCEPT ![s].open = TRUE]
    /\ tfrecord_files' = [f \in DOMAIN tfrecord_files \cup {s} |->
                            IF f = s THEN <<>> ELSE tfrecord_files[f]]
    /\ UNCHANGED <<driverVars, seganVars, decoderVars, configVars, optVars,
                   counterVars, stepVars, loss_metric, pc, runnerVars>>

(* write_tfrecord_file: out.write(example) for the next entry of the part *)
WorkerWrite(s) ==
    /\ pc = "ds_writing"
    /\ workers[s].open
    /\ workers[s].written < Len(workers[s].entries)
    /\ LET entry == workers[s].entries[workers[s].written + 1]
       IN  /\ tfrecord_files' =
                  [tfrecord_files EXCEPT ![s] = Append(@, entry)]
           /\ trace' = Append(trace, Event("write", entry))
    /\ workers' = [workers EXCEPT ![s].written = @ + 1]
    /\ UNCHANGED <<driverVars, seganVars, decoderVars, configVars, optVars,
                   counterVars, data, i, gradients, outputs, before,
                   loss_metric, pc, runnerVars>>

(* pool.map returns once every worker has written its part *)
PoolJoin ==
    /\ pc = "ds_writing"
    /\ \A s \in DOMAIN workers :
          workers[s].open /\ workers[s].written = Len(workers[s].entries)
    /\ workers' = <<>>
    /\ outputs' = [have_data |-> TRUE, dataset |-> <<"dataset">>]
    /\ pc' = "ds_created"
    /\ UNCHANGED <<driverVars, tfrecord_files, seganVars, decoderVars,
                   configVars, optVars, counterVars, data, i, gradients, trace,
                   before, loss_metric, runnerVars>>

(* create() has returned *)
CreateReturn ==
    /\ pc = "ds_created"
    /\ i' = i + 1
    /\ outputs' = <<>>
    /\ pc' = "ds_ready"
    /\ UNCHANGED <<ioVars, decoderVars, configVars, optVars, counterVars, data,
                   gradients, trace, before, loss_metric, runnerVars>>

----------------------------------------------------------------------------
(* get_noise_from_sound and its caller add_realworld_noise.  A signal and  *)
(* a noise are taken by their lengths; a sample of the noise is named by   *)
(* its position.  random.choice picks any member of its range and raises   *)
(* IndexError on an empty one.                                             *)

MaxSamples == 6

SnrValues == {0, 10, 20}

(* range(0, len(noise) - len(signal)) *)
CropStarts(noise_len, signal_len) == 0..(noise_len - signal_len - 1)

(* noise[idx:idx + len(signal)], as positions of the noise (from 0) *)
Crop(noise_len, idx, signal_len) ==
    [k \in 1..(IF idx + signal_len <= noise_len THEN signal_len
                                                ELSE noise_len - idx) |->
        idx + k - 1]

(* the values get_noise_from_sound can come to on its inputs *)
get_noise_from_sound(signal_len, noise_len, snr) ==
    IF noise_len < signal_len \/ snr = 0
      THEN {[raised |-> FALSE, noise |-> None, scaled |-> FALSE]}
    ELSE IF CropStarts(noise_len, signal_len) = {}
      THEN {[raised |-> TRUE, noise |-> None, scaled |-> FALSE]}
    ELSE {[raised |-> FALSE, noise |-> Crop(noise_len, idx, signal_len),
           scaled |-> TRUE] : idx \in CropStarts(noise_len, signal_len)}

GetNoiseFromSound ==
    /\ pc = "new"
    /\ \E signal_len \in 1..MaxSamples, noise_len \in 1..MaxSamples,
          snr \in SnrValues :
          /\ data' = [signal_len |-> signal_len, noise_len |-> noise_len,
                      snr |-> snr]
          /\ \E out \in get_noise_from_sound(signal_len, noise_len, snr) :
                outputs' = out
    /\ trace' = <<Event("get_noise_from_sound", 0)>>
    /\ pc' = "noise_done"
    /\ UNCHANGED <<ioVars, decoderVars, configVars, optVars, counterVars, i,
                   gradients, before, loss_metric, runnerVars>>

(* add_realworld_noise: the noise is added to the signal unless it is      *)
(* None; an error of get_noise_from_sound leaves add_realworld_noise       *)
AddRealworldNoise ==
    /\ pc = "noise_done"
    /\ IF outputs.raised
         THEN /\ trace' = Append(trace, Event("error", NoIndex))
              /\ pc' = "noise_raised"
         ELSE /\ trace' = IF outputs.noise # None
                            THEN Append(trace, Event("np.add", 0))
                            ELSE trace
              /\ pc' = "noise_added"
    /\ UNCHANGED <<ioVars, decoderVars, configVars, optVars, counterVars, data,
                   i, gradients, outputs, before, loss_metric, runnerVars>>

NoiseReturn ==
    /\ pc \in {"noise_added", "noise_raised"}
    /\ data' = <<>>
    /\ outputs' = <<>>
    /\ trace' = <<>>
    /\ pc' = "new"
    /\ UNCHANGED <<ioVars, decoderVars, configVars, optVars, counterVars, i,
                   gradients, before, loss_metric, runnerVars>>

----------------------------------------------------------------------------
(* SEGAN.train.  The checkpoint directory outlives the process; the        *)
(* networks and the save counter live in the process.  The weights of the  *)
(* networks are taken by the number of train steps they have gone through. *)
(* A process can be stopped at any point and a new one started on the same *)
(* configuration and directory.                                            *)

MaxEpochs == 3

MaxSeganBatches == 2

(* CheckpointManager.save(): the save counter is raised by one and names   *)
(* the checkpoint, which holds the networks and the save counter           *)
ckpt_manager_save(weights, counter) ==
    [path |-> <<"ckpt", counter + 1>>,
     weights |-> weights,
     save_counter |-> counter + 1]

(* a train that starts at epoch 0 whatever checkpoint there is *)
initial_epoch_zero(latest) == 0

(* int(latest_checkpoint.split('-')[-1]), or 0 without a checkpoint *)
initial_epoch(latest) ==
    IF latest # None THEN latest.path[Len(latest.path)] ELSE 0

(* SEGAN.__init__ in the first process, on an empty checkpoint directory *)
SeganInit ==
    /\ pc = "new"
    /\ \E n \in 0..MaxEpochs, b \in 1..MaxSeganBatches :
          data' = [num_epochs |-> n, batches |-> b]
    /\ latest_checkpoint' = None
    /\ save_counter' = 0
    /\ generator' = 0
    /\ epoch' = 0
    /\ i' = 0
    /\ trace' = <<>>
    /\ before' = [initial_epoch |-> 0]
    /\ pc' = "segan_ready"
    /\ UNCHANGED <<driverVars, recordVars, decoderVars, configVars, optVars,
                   counterVars, gradients, outputs, loss_metric, runnerVars>>

(* train(): restore the latest checkpoint if there is one, then enter the  *)
(* loop over range(initial_epoch, epochs)                                  *)
SeganTrainBegin ==
    /\ pc \in {"segan_ready", "segan_trained"}
    /\ before' = [initial_epoch |-> initial_epoch(latest_checkpoint)]
    /\ IF latest_checkpoint # None
         THEN /\ generator' = latest_checkpoint.weights
              /\ save_counter' = latest_checkpoint.save_counter
         ELSE UNCHANGED <<generator, save_counter>>
    /\ epoch' = initial_epoch(latest_checkpoint)
    /\ i' = 0
    /\ trace' = <<>>
    /\ pc' = IF initial_epoch(latest_checkpoint) < data.num_epochs
               THEN "segan_epoch" ELSE "segan_trained"
    /\ UNCHANGED <<driverVars, recordVars, latest_checkpoint, decoderVars,
                   configVars, optVars, counterVars, data, gradients, outputs,
                   loss_metric, runnerVars>>

(* train_step on the next batch of the epoch *)
SeganTrainStep ==
    /\ pc = "segan_epoch"
    /\ i < data.batches
    /\ generator' = generator + 1
    /\ i' = i + 1
    /\ UNCHANGED <<driverVars, recordVars, latest_checkpoint, save_counter,
                   epoch, decoderVars, configVars, optVars, counterVars, data,
                   gradients, trace, outputs, before, loss_metric, pc,
                   runnerVars>>

(* after the last batch: self.ckpt_manager.save(), then the next epoch *)
SeganSave ==
    /\ pc = "segan_epoch"
    /\ i >= data.batches
    /\ latest_checkpoint' = ckpt_manager_save(generator, save_counter)
    /\ save_counter' = save_counter + 1
    /\ trace' = Append(trace, Event("epoch", epoch))
    /\ i' = 0
    /\ IF epoch + 1 < data.num_epochs
         THEN epoch' = epoch + 1 /\ pc' = "segan_epoch"
         ELSE epoch' = epoch /\ pc' = "segan_trained"
    /\ UNCHANGED <<driverVars, recordVars, generator, decoderVars, configVars,
                   optVars, counterVars, data, gradients, outputs, before,
                   loss_metric, runnerVars>>

(* the process is stopped: what it held in memory is gone *)
SeganInterrupt ==
    /\ pc \in {"segan_ready", "segan_epoch", "segan_trained"}
    /\ generator' = 0
    /\ save_counter' = 0
    /\ epoch' = 0
    /\ i' = 0
    /\ trace' = <<>>
    /\ before' = [initial_epoch |-> 0]
    /\ pc' = "segan_stopped"
    /\ UNCHANGED <<driverVars, recordVars, latest_checkpoint, decoderVars,
                   configVars, optVars, counterVars, data, gradients, outputs,
                   loss_metric, runnerVars>>

(* SEGAN.__init__ in a new process, on the same checkpoint directory *)
SeganRestart ==
    /\ pc = "segan_stopped"
    /\ pc' = "segan_ready"
    /\ UNCHANGED <<ioVars, decoderVars, configVars, optVars, counterVars,
                   stepVars, loss_metric, runnerVars>>

----------------------------------------------------------------------------
(* One ErrorRate metric through its life: construction, update_state with  *)
(* the (n, d) pair its function gives, result, reset_states.  A quotient   *)
(* is kept as its two terms; tf.math.divide by zero gives no finite value. *)

MaxUpdates == 3

(* (errors, length of the reference) pairs; an empty reference has d = 0 *)
ErrorPairs == {<<0, 2>>, <<1, 2>>, <<2, 3>>, <<1, 0>>}

(* ErrorRate.result: tf.math.divide(self.numerator, self.denominator) *)
result(m) ==
    [nf |-> m.denominator = 0, num |-> m.numerator, den |-> m.denominator]

ErrorRateInit ==
    /\ pc = "new"
    /\ test_metrics' = [test_metrics EXCEPT !.wer = ZeroErrorRate]
    /\ trace' = <<>>
    /\ outputs' = <<>>
    /\ pc' = "metric_ready"
    /\ UNCHANGED <<ioVars, decoderVars, configVars, optVars, counterVars, data,
                   i, gradients, before, loss_metric, is_mixed_precision,
                   eval_data_loader, train_metrics, eval_metrics, reported>>

ErrorRateUpdate ==
    /\ pc = "metric_ready"
    /\ Len(trace) < MaxUpdates
    /\ \E nd \in ErrorPairs :
          /\ test_metrics' = [test_metrics EXCEPT !.wer = update_state(@, nd)]
          /\ trace' = Append(trace, nd)
    /\ outputs' = <<>>
    /\ UNCHANGED <<ioVars, decoderVars, configVars, optVars, counterVars, data,
                   i, gradients, before, loss_metric, pc, is_mixed_precision,
                   eval_data_loader, train_metrics, eval_metrics, reported>>

ErrorRateResult ==
    /\ pc = "metric_ready"
    /\ outputs' = result(test_metrics.wer)
    /\ UNCHANGED <<ioVars, decoderVars, configVars, optVars, counterVars, data,
                   i, gradients, trace, before, loss_metric, pc, runnerVars>>

(* keras Metric.reset_states *)
ErrorRateReset ==
    /\ pc = "metric_ready"
    /\ test_metrics' = [test_metrics EXCEPT !.wer = ZeroErrorRate]
    /\ trace' = <<>>
    /\ outputs' = <<>>
    /\ UNCHANGED <<ioVars, decoderVars, configVars, optVars, counterVars, data,
                   i, gradients, before, loss_metric, pc, is_mixed_precision,
                   eval_data_loader, train_metrics, eval_metrics, reported>>

CallReturn ==
    /\ pc \in {"decoded", "redecoded", "recognized", "loss_done", "padded_done",
              "batch_decoded"}
    /\ data' = <<>>
    /\ outputs' = <<>>
    /\ trace' = <<>>
    /\ pc' = "new"
    /\ UNCHANGED <<ioVars, decoderVars, configVars, optVars, counterVars, i, gradients, before,
                   loss_metric, runnerVars>>

----------------------------------------------------------------------------

Init ==
    /\ compiled = FALSE
    /\ ga_steps = None
    /\ use_ga = FALSE
    /\ ga_total_steps = 0
    /\ use_loss_scale = FALSE
    /\ optimizer = "SGD"
    /\ trainable_variables = ZeroVector
    /\ iterations = 0
    /\ loss_scale = InitialLossScale
    /\ loss_metric = ZeroMean
    /\ train_counter = 0
    /\ test_counter = 0
    /\ pc = "new"
    /\ data = <<>>
    /\ i = 0
    /\ gradients = <<>>
    /\ trace = <<>>
    /\ outputs = <<>>
    /\ before = [params |-> ZeroVector, iterations |-> 0,
                 loss_scale |-> InitialLossScale]
    /\ is_mixed_precision = FALSE
    /\ eval_data_loader = <<>>
    /\ train_metrics = [ctc_loss |-> ZeroMean]
    /\ eval_metrics = ZeroMetrics
    /\ test_metrics = ZeroMetrics
    /\ reported = <<>>
    /\ hypotheses = <<>>
    /\ tflite_beam_width = 0
    /\ iterator = <<>>
    /\ steps_per_execution = None
    /\ tfrecord_files = NoFiles
    /\ workers = <<>>
    /\ latest_checkpoint = None
    /\ save_counter = 0
    /\ epoch = 0
    /\ generator = 0

Next ==
    \/ Compile
    \/ TrainStepBegin
    \/ TrainStepLoop
    \/ TrainStepApply
    \/ TrainStepAbort
    \/ TrainRunStepReturn
    \/ TestStepBegin
    \/ TestStepSub
    \/ TestStepEnd
    \/ TestRunStepReturn
    \/ TrainerCompile
    \/ TrainerTrainStep
    \/ TrainerTrainReturn
    \/ EvalEpochBegin
    \/ EvalStep
    \/ EvalEpochEnd
    \/ TesterInit
    \/ TesterTestStep

Spec == Init /\ [][Next]_vars

(* The prediction path of a compiled BaseModel. *)
NextPredict ==
    \/ Compile
    \/ PredictStep
    \/ PredictReturn

SpecPredict == Init /\ [][NextPredict]_vars

(* The decoders, applied to bounded inputs. *)
NextDecode ==
    \/ DecodeLambda
    \/ DecodeAgain
    \/ RecognizeBoth
    \/ CallReturn

SpecDecode == Init /\ [][NextDecode]_vars

(* The loss of the CTC train model, applied to bounded batches. *)
NextLoss ==
    \/ TrainModelLoss
    \/ PaddedLoss
    \/ CallReturn

SpecLoss == Init /\ [][NextLoss]_vars

(* The decoding function made for export, called on bounded inputs. *)
NextTflite ==
    \/ MakeTfliteFunction
    \/ TfliteFunc
    \/ TfliteReturn

SpecTflite == Init /\ [][NextTflite]_vars

(* The beam search, step by step, on bounded inputs. *)
NextTrainFunction ==
    \/ MakeTrainFunction
    \/ TrainFunctionCall
    \/ TrainFunctionStep
    \/ TrainFunctionExhausted
    \/ TrainFunctionReturn
    \/ TrainFunctionDone

SpecTrainFunction == Init /\ [][NextTrainFunction]_vars

NextRecords ==
    \/ DatasetInit
    \/ CreateTfrecords
    \/ \E s \in 1..MaxShards : s \in DOMAIN workers /\ WorkerOpen(s)
    \/ \E s \in 1..MaxShards : s \in DOMAIN workers /\ WorkerWrite(s)
    \/ PoolJoin
    \/ CreateReturn

SpecRecords == Init /\ [][NextRecords]_vars

NextNoise ==
    \/ GetNoiseFromSound
    \/ AddRealworldNoise
    \/ NoiseReturn

SpecNoise == Init /\ [][NextNoise]_vars

NextSegan ==
    \/ SeganInit
    \/ SeganTrainBegin
    \/ SeganTrainStep
    \/ SeganSave
    \/ SeganInterrupt
    \/ SeganRestart

SpecSegan == Init /\ [][NextSegan]_vars

NextErrorRate ==
    \/ ErrorRateInit
    \/ ErrorRateUpdate
    \/ ErrorRateResult
    \/ ErrorRateReset

SpecErrorRate == Init /\ [][NextErrorRate]_vars

NextBatch ==
    \/ PaddedBatch
    \/ BatchDecode
    \/ CallReturn

SpecBatch == Init /\ [][NextBatch]_vars

NextBeam ==
    \/ BeamSearchBegin
    \/ BeamSearchStep
    \/ BeamSearchEnd
    \/ BeamSearchReturn

SpecBeam == Init /\ [][NextBeam]_vars

(* A started search is carried on: the decoder runs to completion.  The   *)
(* first conjunct is weak fairness of BeamSearchStep, which is enabled     *)
(* exactly when BeamSearchStepEnabled holds and always changes i.          *)
SpecBeamLive ==
    /\ SpecBeam
    /\ ([]<>(~BeamSearchStepEnabled) \/ []<><<BeamSearchStep>>_vars)
    /\ WF_vars(BeamSearchEnd)


----------------------------------------------------------------------------
(* Claims about the step functions. *)

SubStepIndices(tr) ==
    LET sel == SelectSeq(tr, LAMBDA e : e.op = "_train_step")
    IN  [k \in 1..Len(sel) |-> sel[k].index]

ApplyCount(tr) == Len(SelectSeq(tr, LAMBDA e : e.op = "apply_gradients"))

(* C1: in a train_step with gradient accumulation and N = accumulation     *)
(* steps, the forward/backward sub-steps run on sub-batches 0, 1, ..., N-1 *)
(* in that order, each once; while they run no update has been applied and *)
(* the parameters are those at step entry; exactly one apply-update is     *)
(* made, after the N-th sub-step.                                          *)
C1_SubStepsThenOneUpdate ==
    use_ga =>
      /\ pc = "train_loop" =>
            /\ SubStepIndices(trace) = [k \in 1..i |-> k - 1]
            /\ ApplyCount(trace) = 0
            /\ Snapshot = before
      /\ pc = "train_done" =>
            /\ SubStepIndices(trace) = [k \in 1..ga_total_steps |-> k - 1]
            /\ ApplyCount(trace) = 1
            /\ trace[Len(trace)].op = "apply_gradients"

C1_Witness ==
    /\ pc = "train_done"
    /\ use_ga
    /\ ga_total_steps >= 2
    /\ ApplyCount(trace) = 1
    /\ trainable_variables # before.params

LossScalingEnabled ==
    \/ pc = "train_done" /\ use_loss_scale
    \/ pc = "trainer_train_done" /\ is_mixed_precision

(* C2: with loss scaling enabled, a train step whose unscaled gradients    *)
(* hold a non-finite value completes with the update skipped: the          *)
(* parameters and the iteration count are those at step entry.             *)
C2_NonFiniteUpdateSkipped ==
    (LossScalingEnabled /\ ~IsFinite(gradients)) =>
        /\ trainable_variables = before.params
        /\ iterations = before.iterations
        /\ IsFinite(trainable_variables)

C2_Witness ==
    /\ pc = "train_done"
    /\ use_loss_scale
    /\ use_ga
    /\ ~IsFinite(gradients)
    /\ trainable_variables = before.params
    /\ trainable_variables # ZeroVector

(* the gradient _train_step returns on the k-th sub-batch of the batch *)
PerStep(k) == _train_step(data[k])

RECURSIVE SumValues(_, _)
SumValues(c, n) == IF n = 0 THEN 0 ELSE PerStep(n)[c].v + SumValues(c, n - 1)

ExpectedTotal(n) ==
    [c \in 1..Len(PerStep(1)) |->
        IF \E k \in 1..n : PerStep(k)[c].nf THEN NaN ELSE F(SumValues(c, n))]

C6_PredictRunsBothDecoders ==
    pc = "predict_done" =>
        /\ trace = <<Event("recognize", 0), Event("recognize_beam", 0)>>
        /\ DOMAIN outputs = {"_tokens", "_beam_tokens", "_labels"}
        /\ outputs._tokens = greedy_decode(BestClasses(data.probs), data.length)
        /\ outputs._beam_tokens =
               beam_decode(data.probs, data.length, DefaultBeamWidth)
        /\ outputs._labels = data.labels

C6_Witness ==
    /\ pc = "predict_done"
    /\ Len(data.probs) = 2
    /\ data.length = 2
    /\ outputs._tokens # outputs._beam_tokens

EvalPositions ==
    {"test_loop", "test_done", "eval_loop", "tester_idle", "tester_step_done"}

(* C7: no step taken inside an eval/test step changes the trainable        *)
(* parameters or the optimizer state (iterations, loss scale).             *)
C7_EvalLeavesParameters ==
    [][(pc \in EvalPositions \/ pc' \in EvalPositions) => UNCHANGED optVars]_vars

C7_Witness ==
    /\ pc = "test_done"
    /\ trainable_variables # ZeroVector
    /\ iterations > 0
    /\ Snapshot = before

HasOp(tr, op) == \E k \in 1..Len(tr) : tr[k].op = op

StepFinished ==
    \/ pc = "test_done"
    \/ pc = "eval_loop" /\ i > 0
    \/ pc = "tester_step_done"

(* C8 as stated: every eval/test step goes through forward, loss-compute,  *)
(* decode and metrics-update in that order.                                *)
C8_Original ==
    StepFinished =>
        \E a, b, c, d \in 1..Len(trace) :
            /\ a < b /\ b < c /\ c < d
            /\ trace[a].op = "forward"
            /\ trace[b].op \in {"ctc_loss", "compute_loss"}
            /\ trace[c].op = "decode"
            /\ trace[d].op = "update_state_wer"

TestStepTrace(n) ==
    [k \in 1..(2 * n) |->
        IF k % 2 = 1 THEN Event("forward", (k - 1) \div 2)
                     ELSE Event("compute_loss", (k - 2) \div 2)]

(* C8 amended: every CTCTrainer._eval_step and CTCTester._test_step goes   *)
(* through forward, loss-compute, decode and the updates of the loss, word *)
(* and character error-rate metrics, in that order; BaseModel.test_step    *)
(* runs forward and loss-compute on each sub-batch and invokes no decoder. *)
C8_RunnerStepsDecode ==
    /\ (pc = "eval_loop" /\ i > 0) => trace = EvalStepTrace
    /\ pc = "tester_step_done" => trace = EvalStepTrace
    /\ pc = "test_done" =>
          /\ trace = TestStepTrace(IF use_ga THEN ga_total_steps ELSE 1)
          /\ ~HasOp(trace, "decode")

C8_Witness ==
    /\ pc = "eval_loop"
    /\ i = 2
    /\ trace = EvalStepTrace
    /\ eval_metrics.wer.denominator > 0

RECURSIVE SumSeq(_)
SumSeq(q) == IF q = <<>> THEN 0 ELSE q[1] + SumSeq(Tail(q))

Losses(n) == [k \in 1..n |-> eval_data_loader[k].loss]

WerPairs(n) == [k \in 1..n |-> eval_data_loader[k].wer]

CerPairs(n) == [k \in 1..n |-> eval_data_loader[k].cer]

Firsts(pairs) == [k \in 1..Len(pairs) |-> pairs[k][1]]

Seconds(pairs) == [k \in 1..Len(pairs) |-> pairs[k][2]]

ExpectedMetrics(n) ==
    [ctc_loss |-> [total |-> SumSeq(Losses(n)), count |-> n],
     wer |-> [numerator |-> SumSeq(Firsts(WerPairs(n))),
              denominator |-> SumSeq(Seconds(WerPairs(n)))],
     cer |-> [numerator |-> SumSeq(Firsts(CerPairs(n))),
              denominator |-> SumSeq(Seconds(CerPairs(n)))]]

----------------------------------------------------------------------------
(* Claims about the decoders and the loss. *)

(* the positions of the first n entries that start a run and are no blank *)
KeptPositions(best, n) ==
    {k \in 1..n : best[k] # Blank /\ (k = 1 \/ best[k] # best[k - 1])}

RECURSIVE InOrder(_, _)
InOrder(best, positions) ==
    IF positions = {} THEN <<>>
    ELSE LET first == CHOOSE k \in positions : \A j \in positions : k <= j
         IN  <<best[first]>> \o InOrder(best, positions \ {first})

(* C4: the greedy decoder returns, in order, the entries of the valid      *)
(* prefix that are not blank and differ from the entry before them, which  *)
(* is the prefix truncated, run-collapsed and blank-stripped; indices      *)
(* [1,1,0,2,2,0] with blank 0 and length 6 decode to [1,2].                *)
C4_GreedyCollapses ==
    pc = "decoded" =>
        /\ outputs.tokens =
               InOrder(BestClasses(data.probs),
                       KeptPositions(BestClasses(data.probs), data.length))
        /\ (BestClasses(data.probs) = <<1, 1, 0, 2, 2, 0>> /\ data.length = 6)
               => outputs.tokens = <<1, 2>>

C4_Witness ==
    /\ pc = "decoded"
    /\ BestClasses(data.probs) = <<1, 1, 0, 2, 2, 0>>
    /\ data.length = 6
    /\ outputs.tokens = <<1, 2>>

(* C5: for beam_width = 1 the beam decoder returns what the greedy decoder *)
(* returns on the same input.                                              *)
C5_BeamOneIsGreedy ==
    (pc = "recognized" /\ data.beam_width = 1) =>
        outputs.beam_tokens = outputs.tokens

(* C10: a batch with an example whose label length exceeds its feature     *)
(* length makes the loss raise or report an error, and no value of it      *)
(* enters the batch mean.                                                  *)
C10_InvalidLengthReported ==
    (pc = "loss_done"
       /\ \E k \in 1..Len(data) : data[k].label_length > data[k].input_length)
    => outputs.raised

----------------------------------------------------------------------------
(* Claims about configuration and errors. *)

NonPositive(steps) == IsInt(steps) /\ steps[1] <= 0

StepPositions ==
    {"train_loop", "train_apply", "train_done", "train_failed",
     "test_loop", "test_done"}

(* C11: a model compiled with a non-positive accumulation_steps never      *)
(* reaches a train or test step: the value is rejected at compile time.    *)
C11_ConfigErrorsFatalAtCompile ==
    (compiled /\ NonPositive(ga_steps)) => pc \notin StepPositions

TrainPositions == {"train_loop", "train_apply", "train_done", "train_failed"}

(* C12: a train step that raises (the shape check of accumulate, or of the *)
(* update) applies no parameter update and leaves the train counter as it  *)
(* was; the counter goes up by exactly one when a train step that          *)
(* succeeded returns, and at no other point of a train step.               *)
C12_FatalErrorAbortsStep ==
    [][ /\ pc' = "train_failed" =>
              /\ Snapshot' = before'
              /\ ApplyCount(trace') = 0
              /\ train_counter' = train_counter
        /\ pc = "train_failed" =>
              /\ UNCHANGED <<optVars, train_counter>>
              /\ pc' = "raised"
        /\ (pc = "train_done" /\ pc' # pc) => train_counter' = train_counter + 1
        /\ (pc \in TrainPositions \ {"train_done"}) =>
              train_counter' = train_counter
        /\ (pc = "idle" /\ pc' \in TrainPositions) =>
              train_counter' = train_counter ]_vars

C12_Witness ==
    /\ pc = "train_failed"
    /\ use_ga
    /\ i = 1
    /\ train_counter = 1
    /\ trainable_variables # ZeroVector
    /\ HasOp(trace, "error")

----------------------------------------------------------------------------
(* Further claims about the decoders and the loss. *)

NoBlankNoRepeat(q) ==
    /\ \A k \in 1..Len(q) : q[k] # Blank
    /\ \A k \in 1..(Len(q) - 1) : q[k] # q[k + 1]

(* C13 as stated: decoding a sequence that is the output of a greedy       *)
(* decode, with its full length as the valid length, returns that same     *)
(* sequence.                                                               *)
C13_Original ==
    pc = "redecoded" => outputs.tokens = data.best

(* C13 amended: an output of the greedy decoder holds no blank; decoding   *)
(* it again with its full length as the valid length returns it unchanged  *)
(* when it holds no consecutive repeat, and returns it with each run of    *)
(* equal labels collapsed otherwise.                                       *)
C13_GreedyIdempotent ==
    pc = "redecoded" =>
        /\ \A k \in 1..Len(data.best) : data.best[k] # Blank
        /\ data.length = Len(data.best)
        /\ NoBlankNoRepeat(data.best) => outputs.tokens = data.best
        /\ outputs.tokens = CollapseRepeats(data.best)

C13_Witness ==
    /\ pc = "redecoded"
    /\ data.best = <<1, 2, 1>>
    /\ outputs.tokens = <<1, 2, 1>>

Min(a, b) == IF a <= b THEN a ELSE b

Prefixes(hyps) == {hyps[k].prefix : k \in 1..Len(hyps)}

(* C14: after every beam-search step the retained hypotheses are           *)
(* min(beam_width, number of merged candidates) many, have distinct label  *)
(* sequences, are merged candidates of the step, and score at least as     *)
(* high as every merged candidate that was dropped; beam_width = 3 over    *)
(* three classes of equal weight retains exactly 3 after step 1.           *)
C14_BeamRetainsTopWidth ==
    /\ (pc = "beam_loop" /\ i > 0) =>
          /\ Len(hypotheses) = Min(data.beam_width, Len(outputs.merged))
          /\ Len(hypotheses) <= data.beam_width
          /\ Cardinality(Prefixes(hypotheses)) = Len(hypotheses)
          /\ Cardinality(Prefixes(outputs.merged)) = Len(outputs.merged)
          /\ \A k \in 1..Len(hypotheses) :
                \E j \in 1..Len(outputs.merged) : outputs.merged[j] = hypotheses[k]
          /\ \A j \in 1..Len(outputs.merged) :
                (\A k \in 1..Len(hypotheses) : hypotheses[k] # outputs.merged[j])
                  => \A k \in 1..Len(hypotheses) :
                        Score(outputs.merged[j]) <= Score(hypotheses[k])
          /\ (i = 1 /\ data.beam_width = 3
                    /\ data.probs[1] = UniformDistribution)
                => Len(hypotheses) = 3
    /\ pc = "beam_done" =>
          outputs.tokens = beam_decode(data.probs, data.length, data.beam_width)

C14_Witness ==
    /\ pc = "beam_loop"
    /\ i = 1
    /\ data.beam_width = 3
    /\ data.probs[1] = UniformDistribution
    /\ Len(outputs.merged) = 3
    /\ Len(hypotheses) = 3

C15_LossIgnoresPadding ==
    pc = "padded_done" =>
        /\ outputs.padded = outputs.plain
        /\ outputs.plain =
              ctc_lambda_func([data.example EXCEPT
                  !.y_pred = Truncate(@, data.example.input_length)])

C15_Witness ==
    /\ pc = "padded_done"
    /\ Len(data.pad) = 2
    /\ data.example.input_length = 2
    /\ data.example.label_length = 2
    /\ ~outputs.plain.nf
    /\ outputs.padded = outputs.plain

----------------------------------------------------------------------------
(* Further claims about the train step. *)

(* the total a train step hands to the update, from its own batch alone *)
StepTotal == IF use_ga THEN ExpectedTotal(ga_total_steps) ELSE PerStep(1)

ExpectedUpdate(total) ==
    IF optimizer = "LossScaleOptimizer" /\ ~IsFinite(total)
      THEN before.params
      ELSE VSub(before.params, total)

(* C18: the running total of a train step starts from the gradient of the  *)
(* step's first sub-batch, and the update the step applies is made of the  *)
(* gradients of its own sub-batches alone, whatever steps came before.     *)
C18_AccumulatorBoundToMacroBatch ==
    /\ (pc \in {"train_loop", "train_apply"} /\ i = 1) => gradients = PerStep(1)
    /\ pc = "train_done" =>
          /\ gradients = StepTotal
          /\ trainable_variables = ExpectedUpdate(StepTotal)

C18_Witness ==
    /\ pc = "train_done"
    /\ use_ga
    /\ train_counter = 1
    /\ before.params # ZeroVector
    /\ IsFinite(gradients)
    /\ gradients # ZeroVector
    /\ trainable_variables = VSub(before.params, gradients)

(* the sum of the gradients the network yields on the first n sub-batches *)
RECURSIVE SumGrads(_, _)
SumGrads(d, n) ==
    IF n = 1 THEN d[1].grad ELSE VAdd(SumGrads(d, n - 1), d[n].grad)

(* the names of the events of sub-step k that are in the set ops *)
FilterOps(tr, k, ops) ==
    LET sel == SelectSeq(tr, LAMBDA e : e.index = k /\ e.op \in ops)
    IN  [j \in 1..Len(sel) |-> sel[j].op]

(* the sub-steps that have run to their end *)
SubStepsDone ==
    IF pc \in {"train_loop", "train_apply"} THEN i
    ELSE IF pc = "train_done" THEN (IF use_ga THEN ga_total_steps ELSE 1)
    ELSE 0

(* C19: with gradient accumulation each sub-step divides its loss by the   *)
(* step count before loss scaling and before the backward pass, so the     *)
(* total of a macro-batch times N is the sum of the N sub-batch gradients: *)
(* the total is their mean; without accumulation nothing is divided and    *)
(* the gradient is that of the batch.                                      *)
C19_LossDividedBySteps ==
    /\ \A k \in 0..(SubStepsDone - 1) :
          FilterOps(trace, k, {"divide_loss", "get_scaled_loss", "backward"})
            = (IF use_ga THEN <<"divide_loss">> ELSE <<>>)
                \o (IF use_loss_scale THEN <<"get_scaled_loss">> ELSE <<>>)
                \o <<"backward">>
    /\ (pc = "train_done" /\ use_ga) =>
          VMul(gradients, ga_total_steps) = SumGrads(data, ga_total_steps)
    /\ (pc \in {"train_apply", "train_done"} /\ ~use_ga) =>
          gradients = data[1].grad

C19_Witness ==
    /\ pc = "train_done"
    /\ use_ga
    /\ use_loss_scale
    /\ ga_total_steps = 2
    /\ data[1].grad = <<F(2), F(4)>>
    /\ data[2].grad = <<F(6), F(8)>>
    /\ gradients = <<F(4), F(6)>>

(* the gradient of the loss of sub-batch k as it is without loss scaling *)
UnscaledGradient(d) ==
    IF use_ga THEN VDiv(d.grad, ga_total_steps) ELSE d.grad

RECURSIVE UnscaledTotal(_, _)
UnscaledTotal(d, n) ==
    IF n = 1 THEN UnscaledGradient(d[1])
    ELSE VAdd(UnscaledTotal(d, n - 1), UnscaledGradient(d[n]))

ScalingEvents(scaled) ==
    IF scaled
      THEN <<"get_scaled_loss", "backward", "get_unscaled_gradients">>
      ELSE <<"backward">>

----------------------------------------------------------------------------
(* the summed weight, over the candidates of label sequence p, of the      *)
(* alignments ending in a blank and of those ending in the last label      *)
SumPb(cands, p) ==
    SumSeq([k \in 1..Len(cands) |->
              IF cands[k].prefix = p THEN cands[k].pb ELSE 0])

SumPnb(cands, p) ==
    SumSeq([k \in 1..Len(cands) |->
              IF cands[k].prefix = p THEN cands[k].pnb ELSE 0])

DistinctPrefixes(hyps) ==
    \A a, b \in 1..Len(hyps) : a # b => hyps[a].prefix # hyps[b].prefix

(* C21: after the merge phase of every beam-search step no two merged and  *)
(* no two retained hypotheses have the same label sequence: every label    *)
(* sequence the candidates produce is held by exactly one merged           *)
(* hypothesis, whose weights are the sums of the weights of the candidates *)
(* that produce it.                                                        *)
C21_MergedAreUnique ==
    (pc = "beam_loop" /\ i > 0) =>
        /\ DistinctPrefixes(outputs.merged)
        /\ DistinctPrefixes(hypotheses)
        /\ Prefixes(outputs.merged) = Prefixes(outputs.candidates)
        /\ \A k \in 1..Len(outputs.merged) :
              /\ outputs.merged[k].pb
                    = SumPb(outputs.candidates, outputs.merged[k].prefix)
              /\ outputs.merged[k].pnb
                    = SumPnb(outputs.candidates, outputs.merged[k].prefix)

(* a step in which two candidates of non-zero weight give the same label   *)
(* sequence                                                                *)
C21_Witness ==
    /\ pc = "beam_loop"
    /\ i = 2
    /\ Len(outputs.candidates) > Len(outputs.merged)
    /\ \E a, b \in 1..Len(outputs.candidates) :
          /\ a < b
          /\ outputs.candidates[a].prefix = outputs.candidates[b].prefix
          /\ Score(outputs.candidates[a]) > 0
          /\ Score(outputs.candidates[b]) > 0
          /\ \E k \in 1..Len(hypotheses) :
                /\ hypotheses[k].prefix = outputs.candidates[a].prefix
                /\ Score(hypotheses[k]) = Score(outputs.candidates[a])
                                            + Score(outputs.candidates[b])

(* the position of hypothesis h in the list hyps *)
PositionIn(hyps, h) == CHOOSE k \in 1..Len(hyps) : hyps[k] = h

(* C22: the beam search is a function of its input: at every step the     *)
(* retained list is the one the search computes from the frames consumed   *)
(* and beam_width alone, it is ordered by non-increasing score, and        *)
(* hypotheses of equal score stand in the order in which their label       *)
(* sequences were first inserted at the merge.                             *)
C22_BeamSearchDeterministic ==
    /\ pc = "beam_loop" =>
          hypotheses = BeamSearch(InitialBeam, SubSeq(data.probs, 1, i), 1,
                                  data.beam_width)
    /\ (pc = "beam_loop" /\ i > 0) =>
          \A a, b \in 1..Len(hypotheses) :
              a < b =>
                 /\ Score(hypotheses[a]) >= Score(hypotheses[b])
                 /\ Score(hypotheses[a]) = Score(hypotheses[b])
                      => PositionIn(outputs.merged, hypotheses[a])
                           < PositionIn(outputs.merged, hypotheses[b])

(* two retained hypotheses of equal score *)
C22_Witness ==
    /\ pc = "beam_loop"
    /\ i = 2
    /\ Len(hypotheses) >= 2
    /\ \E a \in 1..(Len(hypotheses) - 1) :
          /\ Score(hypotheses[a]) = Score(hypotheses[a + 1])
          /\ hypotheses[a].prefix # hypotheses[a + 1].prefix

----------------------------------------------------------------------------
(* the rows of the batch at hand *)
BatchRows == 1..Len(data.batch)

----------------------------------------------------------------------------
(* the sub-batches test_step is to evaluate *)
TestSubBatches == IF use_ga THEN ga_steps[1] ELSE 1

ForwardIndices(tr) ==
    LET sel == SelectSeq(tr, LAMBDA e : e.op = "forward")
    IN  [k \in 1..Len(sel) |-> sel[k].index]

(* C25: test_step with gradient accumulation evaluates exactly             *)
(* accumulation_steps sub-batches, index by index from 0 and each once,    *)
(* and without it the whole batch once; each evaluation adds one loss to   *)
(* the loss metric, and the metrics are read and returned only after the   *)
(* last sub-batch has been evaluated.                                      *)
C25_TestStepSubBatches ==
    [][ /\ (pc = "test_loop" /\ pc' = "test_loop") =>
              /\ i < TestSubBatches
              /\ i' = i + 1
              /\ ForwardIndices(trace') = [k \in 1..(i + 1) |-> k - 1]
              /\ loss_metric' = UpdateMean(loss_metric, data[i + 1].loss)
              /\ outputs' = <<>>
        /\ (pc = "test_loop" /\ pc' = "test_done") =>
              /\ i = TestSubBatches
              /\ Len(data) = TestSubBatches
              /\ ForwardIndices(trace) = [k \in 1..TestSubBatches |-> k - 1]
              /\ loss_metric' = loss_metric
              /\ outputs' = [loss |-> loss_metric]
        /\ (pc = "test_done" /\ pc' # "test_done") =>
              outputs = [loss |-> loss_metric] ]_vars

(* a test step of two sub-batches has returned its metrics *)
C25_Witness ==
    /\ pc = "test_done"
    /\ use_ga
    /\ ga_steps = Int1(2)
    /\ i = 2
    /\ ForwardIndices(trace) = <<0, 1>>
    /\ outputs.loss.count >= 2

----------------------------------------------------------------------------
(* the batches the steps of the running call were given, in order *)
StepBatches(tr) == [k \in 1..Len(tr) |-> tr[k].batch]

StepsOfCall == IF steps_per_execution = None THEN 1 ELSE steps_per_execution[1]

----------------------------------------------------------------------------
(* how often entry e stands in the shard files, and how often it has been  *)
(* written                                                                 *)
TimesInFiles(e) ==
    Cardinality({<<s, k>> \in (DOMAIN tfrecord_files) \X (1..Len(data.entries)) :
                    k <= Len(tfrecord_files[s]) /\ tfrecord_files[s][k] = e})

TimesWritten(e) ==
    Len(SelectSeq(trace, LAMBDA ev : ev.op = "write" /\ ev.index = e))

RecordPositions == {"ds_ready", "ds_writing", "ds_created"}

----------------------------------------------------------------------------
(* C27: get_noise_from_sound returns None exactly when the noise is        *)
(* shorter than the signal or snr is 0; on every other input, a noise as   *)
(* long as the signal included, it does not raise and returns as many      *)
(* samples as the signal has, taken from one contiguous window of the      *)
(* noise.                                                                  *)
C27_NoiseNeverRaises ==
    pc \in {"noise_done", "noise_added", "noise_raised"} =>
       /\ ~outputs.raised
       /\ outputs.noise = None
            <=> (data.noise_len < data.signal_len \/ data.snr = 0)
       /\ outputs.noise # None =>
             /\ Len(outputs.noise) = data.signal_len
             /\ \A k \in 1..Len(outputs.noise) :
                   /\ outputs.noise[k] \in 0..(data.noise_len - 1)
                   /\ k > 1 => outputs.noise[k] = outputs.noise[k - 1] + 1

----------------------------------------------------------------------------
SeganPositions == {"segan_ready", "segan_epoch", "segan_trained", "segan_stopped"}

(* the number of the latest checkpoint, 0 when there is none *)
CheckpointNumber ==
    IF latest_checkpoint = None THEN 0
    ELSE latest_checkpoint.path[Len(latest_checkpoint.path)]

(* C29: over any sequence of stopped and restarted runs, checkpoint N      *)
(* holds the networks after exactly N whole epochs and N never exceeds     *)
(* num_epochs; a run of train starts at the number of the latest           *)
(* checkpoint (0 without one), runs its epochs in order, each one the      *)
(* epoch of that number, and saves one checkpoint after the last batch of  *)
(* each; a run that starts with num_epochs checkpoints trains no epoch.    *)
C29_ResumeFromCheckpoint ==
    pc \in SeganPositions =>
       /\ CheckpointNumber <= data.num_epochs
       /\ latest_checkpoint # None =>
             /\ latest_checkpoint.weights = CheckpointNumber * data.batches
             /\ latest_checkpoint.save_counter = CheckpointNumber
       /\ pc = "segan_epoch" =>
             /\ epoch = CheckpointNumber
             /\ epoch \in before.initial_epoch..(data.num_epochs - 1)
             /\ generator = epoch * data.batches + i
             /\ i <= data.batches
             /\ trace = [k \in 1..(epoch - before.initial_epoch) |->
                           Event("epoch", before.initial_epoch + k - 1)]
       /\ pc = "segan_trained" =>
             /\ CheckpointNumber = data.num_epochs
             /\ trace = [k \in 1..(data.num_epochs - before.initial_epoch) |->
                           Event("epoch", before.initial_epoch + k - 1)]
             /\ before.initial_epoch = data.num_epochs => trace = <<>>
             /\ generator = data.num_epochs * data.batches

(* a run that was started on the checkpoint of epoch 1 has trained the     *)
(* second of two epochs                                                    *)
C29_Witness ==
    /\ pc = "segan_trained"
    /\ data.num_epochs = 2
    /\ before.initial_epoch = 1
    /\ trace = <<Event("epoch", 1)>>
    /\ CheckpointNumber = 2

----------------------------------------------------------------------------
(* the metric after the updates q, from m on *)
RECURSIVE ApplyUpdates(_, _)
ApplyUpdates(m, q) ==
    IF q = <<>> THEN m ELSE ApplyUpdates(update_state(m, Head(q)), Tail(q))

(* C30: after any updates since the last reset the numerator and the       *)
(* denominator are the sums of the n and of the d of the calls, and the    *)
(* same for every order of the calls; result() is the quotient of the two, *)
(* a finite value exactly when the denominator is not zero, and 0/0        *)
(* directly after construction or reset.                                   *)
C30_ErrorRateSums ==
    pc = "metric_ready" =>
       /\ test_metrics.wer.numerator
            = SumSeq([k \in 1..Len(trace) |-> trace[k][1]])
       /\ test_metrics.wer.denominator
            = SumSeq([k \in 1..Len(trace) |-> trace[k][2]])
       /\ \A f \in Permutations(1..Len(trace)) :
             ApplyUpdates(ZeroErrorRate, [k \in 1..Len(trace) |-> trace[f[k]]])
               = test_metrics.wer
       /\ outputs # <<>> =>
             /\ outputs.num = test_metrics.wer.numerator
             /\ outputs.den = test_metrics.wer.denominator
             /\ outputs.nf <=> test_metrics.wer.denominator = 0
             /\ trace = <<>> => (outputs.num = 0 /\ outputs.den = 0 /\ outputs.nf)

(* the result read after three different updates of which the last has an  *)
(* empty reference                                                         *)
C30_Witness ==
    /\ pc = "metric_ready"
    /\ trace = <<<<1, 2>>, <<2, 3>>, <<1, 0>>>>
    /\ outputs = [nf |-> FALSE, num |-> 4, den |-> 5]

====
